---- MODULE Spec2Model ----
(***************************************************************************)
(* Scoring, risk, quality-gate and human-validation core of the            *)
(* AI-assisted Cypress framework.                                          *)
(*                                                                         *)
(*   ReleaseConfidenceScorer  src/src/quality-gates/release-confidence-    *)
(*                            scorer.ts                                    *)
(*   PRValidationGate         src/src/quality-gates/pr-validation-gate.ts  *)
(*   RiskCoverageAnalyzer     src/unnamed/part_009                         *)
(*   RiskClassifier           src/src/risk/risk-classifier.ts              *)
(*   TestQualityScorer        src/unnamed/part_011                         *)
(*   TestPrioritizer          src/unnamed/part_010                         *)
(***************************************************************************)
EXTENDS Integers, Sequences, FiniteSets, TLC

VARIABLES
    input,        \* ReleaseConfidenceInput handed to calculateConfidence
    confidence,   \* ReleaseConfidenceScore it returned (NoResult before)
    prResult,     \* PRValidationResult of validate(confidence)
    wallClock,    \* the time new Date() reads in the scorer, in ms
    recalculated, \* what a second calculateConfidence(input) returned
    mappings,     \* FeatureTestMapping[] handed to analyzeCoverage
    metrics,      \* CoverageMetrics it returned (NoResult before)
    heatmap,      \* HeatmapData of generateHeatmapData (NoResult before)
    config,       \* RiskConfig the RiskClassifier was constructed with
    classifyArgs, \* featureName and context handed to classifyFeature
    classification, \* what classifyFeature returned or threw
    testCode,     \* source text handed to scoreTest
    quality,      \* QualityMetrics it returned (NoResult before)
    scorings,     \* the scoreTest calls made on the scorer instances
    testInfos,    \* TestInfo[] handed to the TestPrioritizer
    dateNow,      \* Date.now() when the prioritizer runs
    prioritized,  \* strategy used and the TestPriority[] returned
    filtered,     \* context used and what filterForCI returned
    clock,        \* Date.now(), in milliseconds
    rejectionFiles, \* the records directory: file name -> parsed content
    tracked,      \* the decisions handed to trackRejection so far
    records,      \* what the latest getAllRejections returned or threw
    statsArgs,    \* what calculateStats is handed, and the time and zone
    rejectionStats, \* what calculateStats returned or threw
    variant,      \* which validation CLI runs: "counters" or "preview"
    pendingFile,  \* pending-tests.json: whether it exists, and its tests
    atStart,      \* the tests pending-tests.json held when main started
    pendingTests, \* main's in-memory list
    cursor,       \* main's index i into pendingTests (0-based)
    globalNum,    \* 1-based number of the test being shown
    session,      \* the session counters approved, rejected, skipped
    approvedDir,  \* names of the test files written to approvedDir
    approvedTests, \* entries of approved-tests.json
    rejectedDir,  \* names of the files written to rejectedDir
    rejectionTracking, \* entries of rejection-tracking.json
    retries,      \* answers so far that decided nothing
    inFlight,     \* the decision main is carrying out, and how far
    pc            \* where main is: "start", "prompt", "deciding", "done",
                  \* "failed"

confVars == <<input, confidence, prResult, wallClock, recalculated>>
covVars == <<mappings, metrics, heatmap>>
clsVars == <<config, classifyArgs, classification>>
scoreVars == <<testCode, quality, scorings>>
prioVars == <<testInfos, dateNow, prioritized, filtered>>
trkVars == <<clock, rejectionFiles, tracked, records, statsArgs, rejectionStats>>
sesVars ==
    <<variant, pendingFile, atStart, pendingTests, cursor, globalNum, session,
      approvedDir, approvedTests, rejectedDir, rejectionTracking, retries,
      inFlight, pc>>
vars == <<confVars, covVars, clsVars, scoreVars, prioVars, trkVars, sesVars>>

\* what an action of one component leaves alone: all the others
exceptConfidence == <<covVars, clsVars, scoreVars, prioVars, trkVars, sesVars>>
exceptCoverage == <<confVars, clsVars, scoreVars, prioVars, trkVars, sesVars>>
exceptClassifier == <<confVars, covVars, scoreVars, prioVars, trkVars, sesVars>>
exceptScorer == <<confVars, covVars, clsVars, prioVars, trkVars, sesVars>>
exceptTracker == <<confVars, covVars, clsVars, scoreVars, prioVars, sesVars>>
exceptSession == <<confVars, covVars, clsVars, scoreVars, prioVars, trkVars>>
exceptPrioritizer == <<confVars, covVars, clsVars, scoreVars, trkVars, sesVars>>

\* the value of a result variable before the operation has run, and of
\* the variables of a component that is not in use
NoResult == [none |-> TRUE]

IdleConfidence ==
    /\ input = NoResult /\ confidence = NoResult /\ prResult = NoResult
    /\ wallClock = 0 /\ recalculated = NoResult
IdleCoverage ==
    mappings = NoResult /\ metrics = NoResult /\ heatmap = NoResult
IdleClassifier ==
    config = NoResult /\ classifyArgs = NoResult /\ classification = NoResult
IdleScorer == testCode = NoResult /\ quality = NoResult /\ scorings = <<>>
IdlePrioritizer ==
    /\ testInfos = NoResult /\ dateNow = 0
    /\ prioritized = NoResult /\ filtered = NoResult
IdleTracker ==
    /\ clock = 0 /\ rejectionFiles = <<>> /\ tracked = <<>> /\ records = NoResult
    /\ statsArgs = NoResult /\ rejectionStats = NoResult
IdleSession ==
    /\ variant = "none" /\ pendingFile = NoResult /\ atStart = <<>>
    /\ pendingTests = <<>> /\ cursor = 0 /\ globalNum = 0 /\ session = NoResult
    /\ approvedDir = {} /\ approvedTests = <<>> /\ rejectedDir = {}
    /\ rejectionTracking = <<>> /\ retries = 0 /\ inFlight = NoResult
    /\ pc = "none"

\* a specification uses one component; the others stay idle
OnlyConfidence ==
    /\ IdleCoverage /\ IdleClassifier /\ IdleScorer
    /\ IdleTracker /\ IdleSession /\ IdlePrioritizer
OnlyCoverage ==
    /\ IdleConfidence /\ IdleClassifier /\ IdleScorer
    /\ IdleTracker /\ IdleSession /\ IdlePrioritizer
OnlyClassifier ==
    /\ IdleConfidence /\ IdleCoverage /\ IdleScorer
    /\ IdleTracker /\ IdleSession /\ IdlePrioritizer
OnlyScorer ==
    /\ IdleConfidence /\ IdleCoverage /\ IdleClassifier
    /\ IdleTracker /\ IdleSession /\ IdlePrioritizer
OnlyTracker ==
    /\ IdleConfidence /\ IdleCoverage /\ IdleClassifier
    /\ IdleScorer /\ IdleSession /\ IdlePrioritizer
OnlySession ==
    /\ IdleConfidence /\ IdleCoverage /\ IdleClassifier
    /\ IdleScorer /\ IdleTracker /\ IdlePrioritizer
OnlyPrioritizer ==
    /\ IdleConfidence /\ IdleCoverage /\ IdleClassifier
    /\ IdleScorer /\ IdleTracker /\ IdleSession

(***************************************************************************)
(* Bounds of the model                                                     *)
(***************************************************************************)
MaxTests == 5          \* totalTests ranges over 0..MaxTests
MaxQuality == 2        \* at most this many quality vectors are supplied
MaxValidations == 3    \* totalValidations ranges over 0..MaxValidations
MaxMappings == 3       \* feature lists enumerated up to this length
MaxConfigEntries == 2  \* config.features holds at most this many entries
MaxNames == 2          \* classifyFeatures is handed at most this many names
MaxLines == 3          \* source texts are put together from up to this many lines
MaxClock == 2          \* Date.now() ranges over 0..MaxClock
MaxCalls == 2          \* trackRejection is called at most this many times
MaxDecisions == 2      \* calculateStats is handed at most this many decisions
MaxPending == 3        \* pending-tests.json holds at most this many tests
MaxRetries == 2        \* at most this many answers of a session decide nothing

\* riskWeightedCoverage values handed in by the coverage metrics
CoverageSamples == {0, 69, 70, 79, 80, 92, 100}
\* overallScore values of the supplied quality vectors
QualitySamples == {68, 100}

(***************************************************************************)
(* JavaScript numbers.  A number is an IEEE-754 double.  The doubles the   *)
(* scorers compute are zero or lie between 2^-8 and 2^14, so each one is   *)
(* an exact multiple of 2^-FracBits; it is kept as that multiple, a        *)
(* natural number written in limbs of LimbBits bits, least significant     *)
(* limb first (<<>> is 0).  An arithmetic operation is the exact operation *)
(* followed by rounding to 53 significant bits, ties to even.              *)
(***************************************************************************)
LimbBits == 15
Base == 32768
FracBits == 60
MantissaBits == 53

Pow2(n) == 2 ^ n

\* limbs of a sequence of limb sums, the carries propagated
RECURSIVE Carry(_, _)
Carry(s, c) ==
    IF s = <<>>
    THEN (IF c = 0 THEN <<>> ELSE <<c % Base>> \o Carry(<<>>, c \div Base))
    ELSE <<(Head(s) + c) % Base>> \o Carry(Tail(s), (Head(s) + c) \div Base)

\* without leading zero limbs
RECURSIVE Trim(_)
Trim(s) ==
    IF s # <<>> /\ s[Len(s)] = 0 THEN Trim(SubSeq(s, 1, Len(s) - 1)) ELSE s

Limb(s, i) == IF i <= Len(s) THEN s[i] ELSE 0

BAdd(x, y) ==
    Carry([i \in 1..(IF Len(x) > Len(y) THEN Len(x) ELSE Len(y)) |->
              Limb(x, i) + Limb(y, i)], 0)

\* limbs of x - y - b for x >= y + b, the borrows propagated
RECURSIVE Borrow(_, _, _)
Borrow(x, y, b) ==
    IF x = <<>> THEN <<>>
    ELSE LET d == Head(x) - Limb(y, 1) - b
         IN  <<d % Base>> \o
             Borrow(Tail(x), IF y = <<>> THEN <<>> ELSE Tail(y),
                    IF d < 0 THEN 1 ELSE 0)

\* x - y for x >= y
BSub(x, y) == Trim(Borrow(x, y, 0))

\* x * k for 0 <= k < Base
BMulSmall(x, k) == Trim(Carry([i \in 1..Len(x) |-> x[i] * k], 0))

RECURSIVE BMul(_, _)
BMul(x, y) ==
    IF x = <<>> THEN <<>>
    ELSE Trim(BAdd(BMulSmall(y, Head(x)), <<0>> \o BMul(Tail(x), y)))

\* x * 2^s
BShl(x, s) ==
    IF x = <<>> THEN <<>>
    ELSE [i \in 1..(s \div LimbBits) |-> 0] \o BMulSmall(x, Pow2(s % LimbBits))

\* quotient and remainder of x by k, 0 < k < Base
RECURSIVE BDivSmall(_, _)
BDivSmall(x, k) ==
    IF x = <<>> THEN [q |-> <<>>, r |-> 0]
    ELSE LET hi == BDivSmall(Tail(x), k)
             cur == hi.r * Base + Head(x)
         IN  [q |-> <<cur \div k>> \o hi.q, r |-> cur % k]

\* floor(x / 2^s)
BShr(x, s) ==
    LET n == s \div LimbBits
    IN  IF n >= Len(x) THEN <<>>
        ELSE Trim(BDivSmall(SubSeq(x, n + 1, Len(x)), Pow2(s % LimbBits)).q)

\* some bit of x below bit s is set
LowBits(x, s) ==
    LET n == s \div LimbBits
    IN  \/ \E i \in 1..Len(x) : i <= n /\ x[i] # 0
        \/ Limb(x, n + 1) % Pow2(s % LimbBits) # 0

SmallBitLen(v) ==
    IF v = 0 THEN 0
    ELSE CHOOSE b \in 1..LimbBits : Pow2(b - 1) <= v /\ v < Pow2(b)

BitLen(x) ==
    IF x = <<>> THEN 0 ELSE LimbBits * (Len(x) - 1) + SmallBitLen(x[Len(x)])

IsOdd(x) == Limb(x, 1) % 2 = 1

\* the exact value x (plus a positive fraction of its unit when sticky)
\* rounded to the nearest number of 53 significant bits, ties to even
RoundToDouble(exact, sticky) ==
    LET x == Trim(exact)
        s == BitLen(x) - MantissaBits
    IN  IF s <= 0 THEN x
        ELSE LET q == BShr(x, s)
                 roundBit == IsOdd(BShr(x, s - 1))
                 low == sticky \/ LowBits(x, s - 1)
                 up == roundBit /\ (low \/ IsOdd(q))
             IN  BShl(IF up THEN Trim(BAdd(q, <<1>>)) ELSE q, s)

\* the double of an integer 0 <= n < Base
FromInt(n) == BShl(Trim(<<n>>), FracBits)

\* x + y
FAdd(x, y) == RoundToDouble(BAdd(x, y), FALSE)

\* x * y
FMul(x, y) == BShr(RoundToDouble(BMul(x, y), FALSE), FracBits)

\* p / t for integers 0 <= p < Base, 0 < t < Base; also the double that a
\* decimal literal p/t (0.4 is 4/10) denotes
FDivInt(p, t) ==
    LET d == BDivSmall(BShl(Trim(<<p>>), FracBits + LimbBits), t)
    IN  BShr(RoundToDouble(d.q, d.r # 0), LimbBits)

\* Math.round: floor(x + 0.5), for 0 <= x < Base - 1
MathRound(x) ==
    LET n == BShr(BAdd(x, BShl(<<1>>, FracBits - 1)), FracBits)
    IN  IF n = <<>> THEN 0 ELSE n[1]

\* (num / den) * 100
Percentage(num, den) == FMul(FDivInt(num, den), FromInt(100))

\* x < y
RECURSIVE FLess(_, _)
FLess(x, y) ==
    IF Len(x) # Len(y) THEN Len(x) < Len(y)
    ELSE IF x = <<>> THEN FALSE
    ELSE IF x[Len(x)] # y[Len(y)] THEN x[Len(x)] < y[Len(y)]
    ELSE FLess(SubSeq(x, 1, Len(x) - 1), SubSeq(y, 1, Len(y) - 1))

\* Math.max(0, x - y): the difference x - y is negative exactly when x < y
MaxZeroSub(x, y) ==
    IF FLess(x, y) THEN <<>> ELSE RoundToDouble(BSub(x, y), FALSE)

\* toFixed(1): the decimal n/10 nearest to the exact value of x, the upper
\* one of two that are equally near; 0 <= n < Base
ToFixed1(x) ==
    LET n == MathRound(BMulSmall(x, 10))
    IN  ToString(n \div 10) \o "." \o ToString(n % 10)

(***************************************************************************)
(* JavaScript strings.  A string is a TLA+ string; its characters are the  *)
(* strings of length one.  The regular expressions of the program are      *)
(* alternatives of literal words, some followed by a run of characters of  *)
(* one class.                                                              *)
(***************************************************************************)
CharAt(s, i) == SubSeq(s, i, i)

\* the word w stands in s at position i
StartsAt(s, i, w) ==
    i >= 1 /\ i + Len(w) - 1 <= Len(s) /\ SubSeq(s, i, i + Len(w) - 1) = w

\* length of the first of the alternative words that stands in s at
\* position i, 0 when none does
RECURSIVE MatchAt(_, _, _)
MatchAt(s, i, words) ==
    IF words = <<>> THEN 0
    ELSE IF StartsAt(s, i, Head(words)) THEN Len(Head(words))
    ELSE MatchAt(s, i, Tail(words))

\* the positions of s at which one of the alternative words stands
MatchPositions(s, words) == {j \in 1..Len(s) : MatchAt(s, j, words) > 0}

\* the first of the positions at or after i, 0 if there is none
FirstFrom(positions, i) ==
    LET later == {j \in positions : j >= i}
    IN  IF later = {} THEN 0
        ELSE CHOOSE j \in later : \A k \in later : j <= k

\* position of the first match of /w1|w2|.../ in s at or after i, 0 if none
FirstMatch(s, i, words) == FirstFrom(MatchPositions(s, words), i)

\* /w1|w2|.../.test(s)
RegexTest(s, words) == \E j \in 1..Len(s) : MatchAt(s, j, words) > 0

\* s.includes(w)
Includes(s, w) == RegexTest(s, <<w>>)

\* the matches of /w1|w2|.../g in s from position i on, found left to
\* right, each search starting where the last match ended
RECURSIVE MatchesFrom(_, _, _, _)
MatchesFrom(s, positions, i, words) ==
    LET j == FirstFrom(positions, i)
    IN  IF j = 0 THEN <<>>
        ELSE <<j>> \o MatchesFrom(s, positions, j + MatchAt(s, j, words), words)

Matches(s, words) == MatchesFrom(s, MatchPositions(s, words), 1, words)

\* (s.match(/w1|w2|.../g) || []).length
MatchCount(s, words) == Len(Matches(s, words))

\* the lower-case letter of every upper-case letter
LowerCaseOf ==
    [A |-> "a", B |-> "b", C |-> "c", D |-> "d", E |-> "e", F |-> "f",
     G |-> "g", H |-> "h", I |-> "i", J |-> "j", K |-> "k", L |-> "l",
     M |-> "m", N |-> "n", O |-> "o", P |-> "p", Q |-> "q", R |-> "r",
     S |-> "s", T |-> "t", U |-> "u", V |-> "v", W |-> "w", X |-> "x",
     Y |-> "y", Z |-> "z"]

ToLowerChar(c) == IF c \in DOMAIN LowerCaseOf THEN LowerCaseOf[c] ELSE c

RECURSIVE LowerRange(_, _, _)
LowerRange(s, lo, hi) ==
    IF lo > hi THEN ""
    ELSE IF lo = hi THEN ToLowerChar(CharAt(s, lo))
    ELSE LowerRange(s, lo, (lo + hi) \div 2)
             \o LowerRange(s, (lo + hi) \div 2 + 1, hi)

\* the text a regular expression with flag i is matched against
ToLowerCase(s) == LowerRange(s, 1, Len(s))

\* the pieces of s between the matches, the first piece starting at i
RECURSIVE PiecesFrom(_, _, _, _)
PiecesFrom(s, matches, i, width) ==
    IF matches = <<>> THEN <<SubSeq(s, i, Len(s))>>
    ELSE <<SubSeq(s, i, Head(matches) - 1)>>
             \o PiecesFrom(s, Tail(matches), Head(matches) + width, width)

\* s.split(separator), the separator not empty
Split(s, separator) ==
    PiecesFrom(s, Matches(s, <<separator>>), 1, Len(separator))

\* s without the given matches in it, the rest starting at i
RECURSIVE RemoveFrom(_, _, _, _, _)
RemoveFrom(s, low, matches, i, words) ==
    IF matches = <<>> THEN SubSeq(s, i, Len(s))
    ELSE SubSeq(s, i, Head(matches) - 1)
             \o RemoveFrom(s, low, Tail(matches),
                           Head(matches) + MatchAt(low, Head(matches), words),
                           words)

\* s.replace(/w1|w2|.../gi, '')
RemoveAll(s, words) ==
    RemoveFrom(s, ToLowerCase(s), Matches(ToLowerCase(s), words), 1, words)

IsSpace(c) == c \in {" ", "\t", "\n", "\r"}
IsDigit(c) == c \in {"0", "1", "2", "3", "4", "5", "6", "7", "8", "9"}
IsQuote(c) == c \in {"'", "\""}

\* s.trim()
RECURSIVE TrimString(_)
TrimString(s) ==
    IF s = "" THEN ""
    ELSE IF IsSpace(CharAt(s, 1)) THEN TrimString(SubSeq(s, 2, Len(s)))
    ELSE IF IsSpace(CharAt(s, Len(s))) THEN TrimString(SubSeq(s, 1, Len(s) - 1))
    ELSE s

\* s.endsWith(w)
EndsWith(s, w) == StartsAt(s, Len(s) - Len(w) + 1, w)

\* \d+ at position i of s: the number of digits that follow one another
RECURSIVE DigitRun(_, _)
DigitRun(s, i) ==
    IF i <= Len(s) /\ IsDigit(CharAt(s, i)) THEN 1 + DigitRun(s, i + 1) ELSE 0

\* [^'"]+ at position i of s: the number of characters up to the next quote
RECURSIVE NoQuoteRun(_, _)
NoQuoteRun(s, i) ==
    IF i <= Len(s) /\ ~IsQuote(CharAt(s, i)) THEN 1 + NoQuoteRun(s, i + 1)
    ELSE 0

RECURSIVE SumSeq(_)
SumSeq(s) == IF s = <<>> THEN 0 ELSE Head(s) + SumSeq(Tail(s))

(***************************************************************************)
(* ReleaseConfidenceScorer                                                 *)
(***************************************************************************)
weights ==
    [testPassRate |-> FDivInt(4, 10), riskCoverage |-> FDivInt(3, 10),
     testQuality |-> FDivInt(2, 10), humanValidationRate |-> FDivInt(1, 10)]

thresholdExcellent == 90
thresholdGood == 75
thresholdFair == 60

getStatus(score) ==
    IF score >= thresholdExcellent THEN "excellent"
    ELSE IF score >= thresholdGood THEN "good"
    ELSE IF score >= thresholdFair THEN "fair"
    ELSE "poor"

ComponentScore(score, weight, weightedScore, status) ==
    [score |-> score, weight |-> weight, weightedScore |-> weightedScore,
     status |-> status]

calculateTestPassRate(results) ==
    LET passRate == IF results.totalTests > 0
                    THEN Percentage(results.passedTests, results.totalTests)
                    ELSE FromInt(0)
        score == MathRound(passRate)
    IN  ComponentScore(score, weights.testPassRate,
                       FMul(FromInt(score), weights.testPassRate),
                       getStatus(score))

calculateRiskCoverage(coverageMetrics) ==
    LET score == coverageMetrics.riskWeightedCoverage
    IN  ComponentScore(score, weights.riskCoverage,
                       FMul(FromInt(score), weights.riskCoverage),
                       getStatus(score))

calculateTestQuality(qualityMetrics) ==
    IF Len(qualityMetrics) = 0
    THEN ComponentScore(0, weights.testQuality, FromInt(0), "poor")
    ELSE LET avgQuality == FDivInt(SumSeq(qualityMetrics), Len(qualityMetrics))
             score == MathRound(avgQuality)
         IN  ComponentScore(score, weights.testQuality,
                            FMul(FromInt(score), weights.testQuality),
                            getStatus(score))

calculateHumanValidationRate(stats) ==
    IF stats.totalValidations = 0
    THEN ComponentScore(100, weights.humanValidationRate,
                        FMul(FromInt(100), weights.humanValidationRate),
                        "excellent")
    ELSE LET validationRate ==
                 Percentage(stats.approvedTests, stats.totalValidations)
             score == MathRound(validationRate)
         IN  ComponentScore(score, weights.humanValidationRate,
                            FMul(FromInt(score), weights.humanValidationRate),
                            getStatus(score))

blockTestPassRate == 80
blockRiskCoverage == 70
readyScore == 85
cautionScore == 70
notRecommendedScore == 60

\* the tiers looked at before the two blocking rules
determineRecommendation_TierFirst(overallScore, components) ==
    IF overallScore >= readyScore THEN "ready-to-release"
    ELSE IF components.testPassRate.score < blockTestPassRate THEN "blocked"
    ELSE IF components.riskCoverage.score < blockRiskCoverage THEN "blocked"
    ELSE IF overallScore >= cautionScore THEN "proceed-with-caution"
    ELSE IF overallScore >= notRecommendedScore THEN "not-recommended"
    ELSE "blocked"

determineRecommendation(overallScore, components) ==
    IF components.testPassRate.score < blockTestPassRate THEN "blocked"
    ELSE IF components.riskCoverage.score < blockRiskCoverage THEN "blocked"
    ELSE IF overallScore >= readyScore THEN "ready-to-release"
    ELSE IF overallScore >= cautionScore THEN "proceed-with-caution"
    ELSE IF overallScore >= notRecommendedScore THEN "not-recommended"
    ELSE "blocked"

\* calculatedAt is new Date(), read when the result is built; details is a
\* text made of the scores and statuses of components and is left out
calculateConfidence(in, now) ==
    LET testPassRate == calculateTestPassRate(in.testResults)
        riskCoverage == calculateRiskCoverage(in.coverageMetrics)
        testQuality == calculateTestQuality(in.qualityMetrics)
        humanValidationRate == calculateHumanValidationRate(in.validationStats)
        components == [testPassRate |-> testPassRate,
                       riskCoverage |-> riskCoverage,
                       testQuality |-> testQuality,
                       humanValidationRate |-> humanValidationRate]
        overallScore ==
            MathRound(FAdd(FAdd(FAdd(testPassRate.weightedScore,
                                     riskCoverage.weightedScore),
                                testQuality.weightedScore),
                           humanValidationRate.weightedScore))
    IN  [overallScore |-> overallScore,
         components |-> components,
         recommendation |-> determineRecommendation(overallScore, components),
         calculatedAt |-> now]

(***************************************************************************)
(* PRValidationGate                                                        *)
(***************************************************************************)
minTestPassRate == 80
minRiskCoverage == 80
minTestQuality == 70
minConfidenceScore == 75

Gate(gateName, score, threshold, severity, failMark) ==
    [gateName |-> gateName, passed |-> score >= threshold, score |-> score,
     threshold |-> threshold, severity |-> severity,
     \* the message text: pass/fail mark, gate, score and threshold
     message |-> <<IF score >= threshold THEN "ok" ELSE failMark,
                   gateName, score, threshold>>]

validateTestPassRate(score, threshold) ==
    Gate("Test Pass Rate", score, threshold, "critical", "fail")

validateRiskCoverage(score, threshold) ==
    Gate("Risk Coverage", score, threshold, "critical", "fail")

validateTestQuality(score, threshold) ==
    Gate("Test Quality", score, threshold, "high", "warn")

validateOverallConfidence(score, threshold) ==
    Gate("Overall Confidence", score, threshold, "high", "warn")

\* gates.map((g) => g.message)
Messages(gates) == [k \in 1..Len(gates) |-> gates[k].message]

IsFailedCritical(g) == ~g.passed /\ g.severity = "critical"
IsFailedOther(g) == ~g.passed /\ g.severity # "critical"

\* every failed gate, of whatever severity, fails the validation
validate_AnyGateBlocks(conf) ==
    LET gates ==
            << validateTestPassRate(conf.components.testPassRate.score,
                                    minTestPassRate),
               validateRiskCoverage(conf.components.riskCoverage.score,
                                    minRiskCoverage),
               validateTestQuality(conf.components.testQuality.score,
                                   minTestQuality),
               validateOverallConfidence(conf.overallScore,
                                         minConfidenceScore) >>
        IsFailed(g) == ~g.passed
    IN  [overallPassed |-> Len(SelectSeq(gates, IsFailed)) = 0,
         gates |-> gates,
         confidence |-> conf,
         blockers |-> Messages(SelectSeq(gates, IsFailed)),
         warnings |-> <<>>]

validate(conf) ==
    LET gates ==
            << validateTestPassRate(conf.components.testPassRate.score,
                                    minTestPassRate),
               validateRiskCoverage(conf.components.riskCoverage.score,
                                    minRiskCoverage),
               validateTestQuality(conf.components.testQuality.score,
                                   minTestQuality),
               validateOverallConfidence(conf.overallScore,
                                         minConfidenceScore) >>
        failedCriticalGates == SelectSeq(gates, IsFailedCritical)
    IN  [overallPassed |-> Len(failedCriticalGates) = 0,
         gates |-> gates,
         confidence |-> conf,
         blockers |-> Messages(SelectSeq(gates, IsFailedCritical)),
         warnings |-> Messages(SelectSeq(gates, IsFailedOther))]

(***************************************************************************)
(* RiskCoverageAnalyzer                                                    *)
(***************************************************************************)
RiskLevels == <<"critical", "high", "medium", "low">>

\* mappings.filter((m) => m.riskClassification.riskLevel === riskLevel)
AtRisk(ms, riskLevel) ==
    LET IsAtRisk(m) == m.riskClassification.riskLevel = riskLevel
    IN  SelectSeq(ms, IsAtRisk)

IsTested(m) == m.isTested
IsUntested(m) == ~m.isTested

\* .map((m) => m.featureName)
FeatureNames(ms) == [k \in 1..Len(ms) |-> ms[k].featureName]

\* a level without features counted as fully covered
calculateRiskLevelCoverage_EmptyIsCovered(ms, riskLevel) ==
    LET featuresAtRisk == AtRisk(ms, riskLevel)
        testedAtRisk == SelectSeq(featuresAtRisk, IsTested)
    IN  [totalFeatures |-> Len(featuresAtRisk),
         testedFeatures |-> Len(testedAtRisk),
         coveragePercentage |->
             IF Len(featuresAtRisk) > 0
             THEN Percentage(Len(testedAtRisk), Len(featuresAtRisk))
             ELSE FromInt(100),
         untestedFeatures |->
             FeatureNames(SelectSeq(featuresAtRisk, IsUntested))]

calculateRiskLevelCoverage(ms, riskLevel) ==
    LET featuresAtRisk == AtRisk(ms, riskLevel)
        testedAtRisk == SelectSeq(featuresAtRisk, IsTested)
    IN  [totalFeatures |-> Len(featuresAtRisk),
         testedFeatures |-> Len(testedAtRisk),
         coveragePercentage |->
             IF Len(featuresAtRisk) > 0
             THEN Percentage(Len(testedAtRisk), Len(featuresAtRisk))
             ELSE FromInt(0),
         untestedFeatures |->
             FeatureNames(SelectSeq(featuresAtRisk, IsUntested))]

coverageWeights ==
    [critical |-> FDivInt(4, 10), high |-> FDivInt(3, 10),
     medium |-> FDivInt(2, 10), low |-> FDivInt(1, 10)]

calculateRiskWeightedCoverage(coverageByRisk) ==
    LET weightedScore ==
            FAdd(FAdd(FAdd(FMul(coverageByRisk.critical.coveragePercentage,
                                coverageWeights.critical),
                           FMul(coverageByRisk.high.coveragePercentage,
                                coverageWeights.high)),
                      FMul(coverageByRisk.medium.coveragePercentage,
                           coverageWeights.medium)),
                 FMul(coverageByRisk.low.coveragePercentage,
                      coverageWeights.low))
    IN  MathRound(weightedScore)

urgentScore == 90
highScore == 70
mediumScore == 50

\* the priority taken from the risk level alone
determinePriority_LevelOnly(riskLevel, riskScore) ==
    IF riskLevel = "critical" THEN "urgent" ELSE riskLevel

determinePriority(riskLevel, riskScore) ==
    IF riskLevel = "critical" \/ riskScore >= urgentScore THEN "urgent"
    ELSE IF riskLevel = "high" \/ riskScore >= highScore THEN "high"
    ELSE IF riskLevel = "medium" \/ riskScore >= mediumScore THEN "medium"
    ELSE "low"

priorityOrder == [urgent |-> 0, high |-> 1, medium |-> 2, low |-> 3]

\* the comparator of the sort: negative, zero or positive
ComparePriority(a, b) == priorityOrder[a.priority] - priorityOrder[b.priority]

\* g put into the sorted s behind every element that does not compare
\* greater than g
RECURSIVE InsertGap(_, _)
InsertGap(s, g) ==
    IF s = <<>> THEN <<g>>
    ELSE IF ComparePriority(Head(s), g) > 0 THEN <<g>> \o s
    ELSE <<Head(s)>> \o InsertGap(Tail(s), g)

\* Array.prototype.sort with ComparePriority: a stable sort
RECURSIVE SortGaps(_)
SortGaps(gs) ==
    IF gs = <<>> THEN <<>>
    ELSE InsertGap(SortGaps(SubSeq(gs, 1, Len(gs) - 1)), gs[Len(gs)])

CoverageGap(feature) ==
    [featureName |-> feature.featureName,
     riskLevel |-> feature.riskClassification.riskLevel,
     riskScore |-> feature.riskClassification.riskScore,
     priority |-> determinePriority(feature.riskClassification.riskLevel,
                                    feature.riskClassification.riskScore),
     \* generateRecommendation: the text chosen by the risk level
     recommendation |-> feature.riskClassification.riskLevel]

identifyCoverageGaps(ms) ==
    LET untestedFeatures == SelectSeq(ms, IsUntested)
    IN  SortGaps([k \in 1..Len(untestedFeatures) |->
                     CoverageGap(untestedFeatures[k])])

analyzeCoverage(ms) ==
    LET totalFeatures == Len(ms)
        testedFeatures == Len(SelectSeq(ms, IsTested))
        coverageByRisk ==
            [critical |-> calculateRiskLevelCoverage(ms, "critical"),
             high |-> calculateRiskLevelCoverage(ms, "high"),
             medium |-> calculateRiskLevelCoverage(ms, "medium"),
             low |-> calculateRiskLevelCoverage(ms, "low")]
    IN  [totalFeatures |-> totalFeatures,
         testedFeatures |-> testedFeatures,
         coverageByRisk |-> coverageByRisk,
         overallCoverage |->
             IF totalFeatures > 0 THEN Percentage(testedFeatures, totalFeatures)
             ELSE FromInt(0),
         riskWeightedCoverage |-> calculateRiskWeightedCoverage(coverageByRisk),
         gaps |-> identifyCoverageGaps(ms)]

(***************************************************************************)
(* RiskClassifier                                                          *)
(*                                                                         *)
(* The patterns of the model are literal words, which                      *)
(* RegExp(pattern, 'i').test finds anywhere in the name whatever the case, *)
(* and patterns with an unclosed group, which the RegExp constructor       *)
(* rejects with a SyntaxError.                                             *)
(***************************************************************************)
\* an absent optional value
Undefined == "undefined"

\* a || b
OrElse(a, b) == IF a # Undefined THEN a ELSE b

\* new RegExp(pattern, 'i') throws
IsInvalidPattern(pattern) == Includes(pattern, "(")

\* new RegExp(pattern, 'i').test(featureName), the pattern being valid
PatternTest(pattern, featureName) ==
    Includes(ToLowerCase(featureName), ToLowerCase(pattern))

FeatureRiskConfig(pattern, riskLevel, impact, complexity, frequency) ==
    [pattern |-> pattern, riskLevel |-> riskLevel,
     businessImpact |-> impact,
     technicalComplexity |-> complexity,
     changeFrequency |-> frequency]

\* the undefined that find returns when no entry matches, and the context
\* that was not passed: every field read through ?. is undefined
NoEntry == FeatureRiskConfig("", Undefined, Undefined, Undefined, Undefined)

\* this.config.features.find(...): the first entry whose pattern matches,
\* NoEntry when none does; threw when an entry tried on the way has an
\* invalid pattern
RECURSIVE FindFirst(_, _)
FindFirst(features, featureName) ==
    IF features = <<>> THEN [threw |-> FALSE, entry |-> NoEntry]
    ELSE IF IsInvalidPattern(Head(features).pattern)
    THEN [threw |-> TRUE, entry |-> NoEntry]
    ELSE IF PatternTest(Head(features).pattern, featureName)
    THEN [threw |-> FALSE, entry |-> Head(features)]
    ELSE FindFirst(Tail(features), featureName)

findMatchingConfig(cfg, featureName) == FindFirst(cfg.features, featureName)

\* the risk factors: weight and the level word its description starts with
calculateRiskFactors(businessImpact, technicalComplexity, changeFrequency) ==
    [impact |-> [weight |-> FDivInt(4, 10), description |-> businessImpact],
     complexity |-> [weight |-> FDivInt(35, 100),
                     description |-> technicalComplexity],
     frequency |-> [weight |-> FDivInt(25, 100),
                    description |-> changeFrequency]]

getImpactScore(description) ==
    IF description = "critical" THEN 100
    ELSE IF description = "high" THEN 75
    ELSE IF description = "medium" THEN 50
    ELSE 25

getComplexityScore(description) ==
    IF description = "high" THEN 100
    ELSE IF description = "medium" THEN 60
    ELSE 30

getFrequencyScore(description) ==
    IF description = "high" THEN 100
    ELSE IF description = "medium" THEN 60
    ELSE 30

calculateRiskScore(riskFactors) ==
    LET impactScore == getImpactScore(riskFactors.impact.description)
        complexityScore == getComplexityScore(riskFactors.complexity.description)
        frequencyScore == getFrequencyScore(riskFactors.frequency.description)
        totalScore ==
            FAdd(FAdd(FMul(FromInt(impactScore), FDivInt(4, 10)),
                      FMul(FromInt(complexityScore), FDivInt(35, 100))),
                 FMul(FromInt(frequencyScore), FDivInt(25, 100)))
    IN  MathRound(totalScore)

criticalScore == 85
highRiskScore == 65
mediumRiskScore == 40

\* the breakpoints five points lower
determineRiskLevel_Lower(score) ==
    IF score >= criticalScore - 5 THEN "critical"
    ELSE IF score >= highRiskScore - 5 THEN "high"
    ELSE IF score >= mediumRiskScore - 5 THEN "medium"
    ELSE "low"

determineRiskLevel(score) ==
    IF score >= criticalScore THEN "critical"
    ELSE IF score >= highRiskScore THEN "high"
    ELSE IF score >= mediumRiskScore THEN "medium"
    ELSE "low"

classifyFeature(cfg, featureName, context) ==
    LET found == findMatchingConfig(cfg, featureName)
        matchedConfig == found.entry
        businessImpact ==
            OrElse(context.businessImpact,
                   OrElse(matchedConfig.businessImpact, "medium"))
        technicalComplexity ==
            OrElse(context.technicalComplexity,
                   OrElse(matchedConfig.technicalComplexity, "medium"))
        changeFrequency ==
            OrElse(context.changeFrequency,
                   OrElse(matchedConfig.changeFrequency, "medium"))
        riskFactors == calculateRiskFactors(businessImpact, technicalComplexity,
                                            changeFrequency)
        riskScore == calculateRiskScore(riskFactors)
        riskLevel ==
            OrElse(matchedConfig.riskLevel,
                   OrElse(context.riskLevel, determineRiskLevel(riskScore)))
    IN  IF found.threw THEN [threw |-> "SyntaxError"]
        ELSE [featureName |-> featureName,
              riskLevel |-> riskLevel,
              riskScore |-> riskScore,
              riskFactors |-> riskFactors,
              businessImpact |-> businessImpact,
              technicalComplexity |-> technicalComplexity,
              changeFrequency |-> changeFrequency]

(***************************************************************************)
(* TestQualityScorer                                                       *)
(***************************************************************************)
Issue(severity, category, message) ==
    [severity |-> severity, category |-> category, message |-> message]

\* one check of a category: the points it deducts and the issue it pushes
Check(fires, points, severity, category, message) ==
    IF fires
    THEN [points |-> points, issues |-> <<Issue(severity, category, message)>>]
    ELSE [points |-> 0, issues |-> <<>>]

\* what a category returns, Math.max(0, score), with the issues it pushed
Category(c1, c2, c3, c4) ==
    LET score == 100 - c1.points - c2.points - c3.points - c4.points
    IN  [score |-> IF score > 0 THEN score ELSE 0,
         issues |-> c1.issues \o c2.issues \o c3.issues \o c4.issues]

\* l.trim() && !l.trim().startsWith('//')
IsCodeLine(l) == TrimString(l) # "" /\ ~StartsAt(TrimString(l), 1, "//")

EndsStatement(l) ==
    \/ EndsWith(TrimString(l), ";")
    \/ EndsWith(TrimString(l), "{")
    \/ EndsWith(TrimString(l), "}")

checkSyntax(code) ==
    LET singleQuotes == MatchCount(code, <<"'">>)
        doubleQuotes == MatchCount(code, <<"\"">>)
        codeLines == SelectSeq(Split(code, "\n"), IsCodeLine)
        linesWithSemicolon == SelectSeq(codeLines, EndsStatement)
    IN  Category(
            Check(~Includes(code, "describe("), 30,
                  "error", "syntax", "Missing describe block"),
            Check(~Includes(code, "it("), 30,
                  "error", "syntax", "Missing it/test block"),
            Check(singleQuotes > 0 /\ doubleQuotes > 0, 5,
                  "warning", "syntax", "Inconsistent quote usage"),
            Check(FLess(FromInt(Len(linesWithSemicolon)),
                        FMul(FromInt(Len(codeLines)), FDivInt(5, 10))), 5,
                  "info", "syntax", "Missing semicolons in some statements"))

checkCoverage(code) ==
    LET itBlocks == MatchCount(code, <<"it(">>)
        lower == ToLowerCase(code)
        hasEdgeCases ==
            RegexTest(lower, <<"edge", "boundary", "limit", "empty", "null",
                               "undefined", "invalid">>)
        hasErrorHandling ==
            RegexTest(lower, <<"error", "fail", "reject", "catch",
                               "should.not">>)
        hasSetup == RegexTest(code, <<"beforeEach", "before(">>)
    IN  Category(
            Check(itBlocks < 2, 20, "warning", "coverage",
                  "Only one test case found. Consider adding more scenarios."),
            Check(~hasEdgeCases, 15, "warning", "coverage",
                  "No edge case testing detected"),
            Check(~hasErrorHandling, 10, "info", "coverage",
                  "No error handling scenarios found"),
            Check(~hasSetup, 5, "info", "coverage",
                  "No setup hooks (beforeEach) found"))

\* no assertion costs 20, like a test case without one
checkAssertions_NoAssertion20(code) ==
    LET assertions == MatchCount(code, <<".should(", ".expect(">>)
        itBlocks == MatchCount(code, <<"it(">>)
    IN  Category(
            Check(assertions < itBlocks \/ assertions = 0, 20, "warning",
                  "assertions", "Some test cases may be missing assertions"),
            Check(FALSE, 0, "", "", ""),
            Check(FALSE, 0, "", "", ""),
            Check(FLess(FDivInt(assertions,
                                IF itBlocks > 1 THEN itBlocks ELSE 1),
                        FromInt(2)), 10, "info", "assertions",
                  "Consider adding more assertions per test case"))

checkAssertions(code) ==
    LET assertions == MatchCount(code, <<".should(", ".expect(">>)
        itBlocks == MatchCount(code, <<"it(">>)
        hasWeakAssertions ==
            RegexTest(code, <<"should('exist')", "should('be.visible')">>)
        hasStrongAssertions ==
            RegexTest(code, <<"should('equal'", "should('contain'",
                              "should('have.length'">>)
        avgAssertionsPerTest ==
            FDivInt(assertions, IF itBlocks > 1 THEN itBlocks ELSE 1)
    IN  Category(
            Check(assertions = 0, 50, "error", "assertions",
                  "No assertions found in test"),
            \* else if
            Check(assertions # 0 /\ assertions < itBlocks, 20, "warning",
                  "assertions", "Some test cases may be missing assertions"),
            Check(hasWeakAssertions /\ ~hasStrongAssertions, 15, "warning",
                  "assertions",
                  "Only weak assertions found. Consider adding more specific assertions."),
            Check(FLess(avgAssertionsPerTest, FromInt(2)), 10, "info",
                  "assertions",
                  "Consider adding more assertions per test case"))

\* /\d{3,}/.test(s)
HasMagicNumber(s) == \E i \in 1..Len(s) : DigitRun(s, i) >= 3

\* the description regex /it\(['"]([^'"]+)['"]/ matches at position j
IsDescriptionAt(s, j) ==
    /\ MatchAt(s, j, <<"it('", "it(\"">>) > 0
    /\ NoQuoteRun(s, j + 4) >= 1
    /\ j + 4 + NoQuoteRun(s, j + 4) <= Len(s)

\* the matches of /it\(['"]([^'"]+)['"]/g in s from position i on
RECURSIVE DescriptionsFrom(_, _, _)
DescriptionsFrom(s, positions, i) ==
    LET j == FirstFrom(positions, i)
        last == j + 4 + NoQuoteRun(s, j + 4)
    IN  IF j = 0 THEN <<>>
        ELSE <<SubSeq(s, j, last)>> \o DescriptionsFrom(s, positions, last + 1)

Descriptions(s) ==
    DescriptionsFrom(s, {j \in 1..Len(s) : IsDescriptionAt(s, j)}, 1)

checkMaintainability(code) ==
    LET commentLines == MatchCount(code, <<"//">>)
        totalLines == Len(Split(code, "\n"))
        commentRatio == FDivInt(commentLines, totalLines)
        hasMagicNumbers == HasMagicNumber(RemoveAll(code, <<"timeout", "wait">>))
        hasHardcodedUrls == RegexTest(code, <<"http://", "https://">>)
        descriptions == Descriptions(code)
        hasGoodDescriptions ==
            \A k \in 1..Len(descriptions) : Len(descriptions[k]) > 20
    IN  Category(
            Check(FLess(commentRatio, FDivInt(1, 10)), 10, "info",
                  "maintainability",
                  "Consider adding more comments for clarity"),
            Check(hasMagicNumbers, 15, "warning", "maintainability",
                  "Magic numbers detected. Consider using constants."),
            Check(hasHardcodedUrls, 15, "warning", "maintainability",
                  "Hardcoded URLs found. Use baseUrl or environment variables."),
            Check(~hasGoodDescriptions, 5, "info", "maintainability",
                  "Some test descriptions are too short"))

\* /\.(class|id)\(|#|\.(?!should|and|then)/.test(s)
HasFragileSelector(s) ==
    \/ RegexTest(s, <<".class(", ".id(", "#">>)
    \/ \E i \in 1..Len(s) :
          CharAt(s, i) = "." /\ MatchAt(s, i + 1, <<"should", "and", "then">>) = 0

\* /cy\.wait\(\d+\)/.test(s)
HasHardWait(s) ==
    \E i \in 1..Len(s) :
        /\ StartsAt(s, i, "cy.wait(")
        /\ DigitRun(s, i + 8) >= 1
        /\ CharAt(s, i + 8 + DigitRun(s, i + 8)) = ")"

checkBestPractices(code) ==
    LET hasDataTestId == Includes(code, "data-testid")
        hasFragileSelectors == HasFragileSelector(code)
        hasWait == HasHardWait(code)
        hasCustomCommands ==
            RegexTest(code, <<"cy.login", "cy.addToCart", "cy.logout">>)
        hasRepetitiveCode == Len(Split(code, "cy.get")) > 10
        hasSharedState == RegexTest(Split(code, "describe")[1], <<"let ", "var ">>)
    IN  Category(
            Check(~hasDataTestId /\ hasFragileSelectors, 20, "warning",
                  "best-practices",
                  "Using fragile selectors. Prefer data-testid attributes."),
            Check(hasWait, 15, "warning", "best-practices",
                  "Hard waits detected. Use implicit waits or assertions instead."),
            Check(~hasCustomCommands /\ hasRepetitiveCode, 10, "info",
                  "best-practices",
                  "Consider using custom commands for repetitive actions"),
            Check(hasSharedState, 15, "warning", "best-practices",
                  "Shared state detected. Ensure proper test isolation."))

scoreTest(code) ==
    LET syntax == checkSyntax(code)
        coverage == checkCoverage(code)
        assertion == checkAssertions(code)
        maintainability == checkMaintainability(code)
        bestPractices == checkBestPractices(code)
        overallScore ==
            MathRound(
                FAdd(FAdd(FAdd(FAdd(FMul(FromInt(syntax.score),
                                         FDivInt(20, 100)),
                                    FMul(FromInt(coverage.score),
                                         FDivInt(25, 100))),
                               FMul(FromInt(assertion.score),
                                    FDivInt(25, 100))),
                          FMul(FromInt(maintainability.score),
                               FDivInt(15, 100))),
                     FMul(FromInt(bestPractices.score), FDivInt(15, 100))))
    IN  [syntaxScore |-> syntax.score,
         coverageScore |-> coverage.score,
         assertionScore |-> assertion.score,
         maintainabilityScore |-> maintainability.score,
         bestPracticesScore |-> bestPractices.score,
         overallScore |-> overallScore,
         issues |-> syntax.issues \o coverage.issues \o assertion.issues
                        \o maintainability.issues \o bestPractices.issues]

(***************************************************************************)
(* Inputs of the confidence scorer                                         *)
(***************************************************************************)
QualityLists ==
    UNION {[1..n -> QualitySamples] : n \in 0..MaxQuality}

ConfidenceInputs ==
    {[testResults |-> [totalTests |-> t, passedTests |-> p],
      coverageMetrics |-> [riskWeightedCoverage |-> c],
      qualityMetrics |-> q,
      validationStats |-> [totalValidations |-> v, approvedTests |-> a]] :
        t \in 0..MaxTests, p \in 0..MaxTests, c \in CoverageSamples,
        q \in QualityLists, v \in 0..MaxValidations, a \in 0..MaxValidations}

ValidConfidenceInput(in) ==
    /\ in.testResults.passedTests <= in.testResults.totalTests
    /\ in.validationStats.approvedTests <= in.validationStats.totalValidations

InitConfidence ==
    /\ input \in {in \in ConfidenceInputs : ValidConfidenceInput(in)}
    /\ confidence = NoResult
    /\ prResult = NoResult
    /\ wallClock = 0
    /\ recalculated = NoResult
    /\ OnlyConfidence

\* scorer.calculateConfidence(input)
CalculateConfidence ==
    /\ confidence = NoResult
    /\ confidence' = calculateConfidence(input, wallClock)
    /\ UNCHANGED <<input, prResult, wallClock, recalculated>>
    /\ UNCHANGED exceptConfidence

\* gate.validate(confidence)
ValidatePR ==
    /\ confidence # NoResult
    /\ prResult = NoResult
    /\ prResult' = validate(confidence)
    /\ UNCHANGED <<input, confidence, wallClock, recalculated>>
    /\ UNCHANGED exceptConfidence

NextConfidence == CalculateConfidence \/ ValidatePR

SpecConfidence == InitConfidence /\ [][NextConfidence]_vars

(***************************************************************************)
(* Inputs of the coverage analyzer                                         *)
(***************************************************************************)
\* risk level and risk score of a feature: the level may come from the
\* configuration and then says nothing about the score
ClassificationSamples ==
    {[riskLevel |-> "critical", riskScore |-> 100],
     [riskLevel |-> "high", riskScore |-> 76],
     [riskLevel |-> "medium", riskScore |-> 53],
     [riskLevel |-> "low", riskScore |-> 28],
     [riskLevel |-> "low", riskScore |-> 90],
     [riskLevel |-> "medium", riskScore |-> 70],
     [riskLevel |-> "low", riskScore |-> 50]}

MappingSamples ==
    {[riskClassification |-> c, isTested |-> b] :
        c \in ClassificationSamples, b \in BOOLEAN}

\* the features of a list named by their position in it
Named(fs) ==
    [k \in 1..Len(fs) |->
        [featureName |-> k,
         riskClassification |-> fs[k].riskClassification,
         isTested |-> fs[k].isTested]]

\* total features of one level, the first tested of them tested
LevelBlock(riskLevel, riskScore, tested, total) ==
    [k \in 1..total |->
        [riskClassification |->
             [riskLevel |-> riskLevel, riskScore |-> riskScore],
         isTested |-> k <= tested]]

Suite(critical, high, medium, low) ==
    Named(LevelBlock("critical", 100, critical[1], critical[2])
          \o LevelBlock("high", 76, high[1], high[2])
          \o LevelBlock("medium", 53, medium[1], medium[2])
          \o LevelBlock("low", 28, low[1], low[2]))

\* larger feature lists: one untested critical and three tested low
\* features; one tested feature of every level; twelve features partly
\* tested at every level
Suites ==
    {Suite(<<0, 1>>, <<0, 0>>, <<0, 0>>, <<3, 3>>),
     Suite(<<1, 1>>, <<1, 1>>, <<1, 1>>, <<1, 1>>),
     Suite(<<1, 2>>, <<3, 4>>, <<2, 3>>, <<2, 3>>)}

MappingLists ==
    {Named(fs) : fs \in UNION {[1..n -> MappingSamples] : n \in 0..MaxMappings}}
        \cup Suites

InitCoverage ==
    /\ mappings \in MappingLists
    /\ metrics = NoResult
    /\ heatmap = NoResult
    /\ OnlyCoverage

\* analyzer.analyzeCoverage(mappings)
AnalyzeCoverage ==
    /\ metrics = NoResult
    /\ metrics' = analyzeCoverage(mappings)
    /\ UNCHANGED <<mappings, heatmap>>
    /\ UNCHANGED exceptCoverage

NextCoverage == AnalyzeCoverage

SpecCoverage == InitCoverage /\ [][NextCoverage]_vars

(***************************************************************************)
(* Inputs of the risk classifier                                           *)
(***************************************************************************)
FeatureNameSamples == {"AuthLog", "Login", "Cart"}

ConfigEntrySamples ==
    {FeatureRiskConfig("auth", "critical", "critical", "high", "medium"),
     FeatureRiskConfig("log", "low", "low", "low", "low"),
     FeatureRiskConfig("(cart", "high", "high", "medium", "high")}

RiskConfigs ==
    {[features |-> fs, defaultRiskLevel |-> d] :
        fs \in UNION {[1..n -> ConfigEntrySamples] : n \in 0..MaxConfigEntries},
        d \in {"medium", "low"}}

\* Partial<FeatureRiskConfig>: each field set or not; the pattern field
\* stands for the fields classifyFeature does not read.  NoEntry is the
\* context that was not passed.
Contexts ==
    {FeatureRiskConfig("", l, b, t, f) :
        l \in {Undefined, "high"},
        b \in {Undefined, "critical", "high", "medium", "low"},
        t \in {Undefined, "high", "medium", "low"},
        f \in {Undefined, "high", "medium", "low"}}

InitClassifier ==
    /\ config \in RiskConfigs
    /\ classifyArgs \in {[featureName |-> n, context |-> c] :
                       n \in FeatureNameSamples, c \in Contexts}
    /\ classification = NoResult
    /\ OnlyClassifier

\* classifier.classifyFeature(featureName, context)
ClassifyFeature ==
    /\ classification = NoResult
    /\ classification' =
           classifyFeature(config, classifyArgs.featureName, classifyArgs.context)
    /\ UNCHANGED <<config, classifyArgs>>
    /\ UNCHANGED exceptClassifier

NextClassifier == ClassifyFeature

SpecClassifier == InitClassifier /\ [][NextClassifier]_vars

(***************************************************************************)
(* Inputs of the quality scorer                                            *)
(***************************************************************************)
LineSamples ==
    {"describe('Login', () => {",
     "  it('logs in with valid credentials', () => {",
     "  it('fails', () => {",
     "    cy.visit('/login')",
     "    cy.get('[data-testid=user]').should('be.visible');",
     "    cy.get(\"#total\").should('equal', 1000);",
     "    // check the empty cart",
     "let count = 0;"}

\* a generated test as the generator writes it
GeneratedTest ==
    <<"// Login: valid and invalid credentials",
      "describe('Login', () => {",
      "  beforeEach(() => {",
      "    cy.login();",
      "  });",
      "  it('logs in with valid credentials', () => {",
      "    cy.get('[data-testid=user]').should('contain', 'Ann');",
      "    cy.get('[data-testid=menu]').should('be.visible');",
      "  });",
      "  it('rejects an empty password field', () => {",
      "    cy.get('[data-testid=error]').should('contain', 'required');",
      "    cy.get('[data-testid=submit]').should('exist');",
      "  });",
      "});">>

\* lines.join('\n')
RECURSIVE JoinLines(_)
JoinLines(lines) ==
    IF lines = <<>> THEN ""
    ELSE IF Len(lines) = 1 THEN lines[1]
    ELSE lines[1] \o "\n" \o JoinLines(Tail(lines))

TestCodes ==
    {JoinLines(ls) : ls \in UNION {[1..n -> LineSamples] : n \in 0..MaxLines}}
        \cup {JoinLines(GeneratedTest)}

InitScorer ==
    /\ testCode \in TestCodes
    /\ quality = NoResult
    /\ scorings = <<>>
    /\ OnlyScorer

\* scorer.scoreTest(testCode)
ScoreTest ==
    /\ quality = NoResult
    /\ quality' = scoreTest(testCode)
    /\ UNCHANGED <<testCode, scorings>>
    /\ UNCHANGED exceptScorer

NextScorer == ScoreTest

SpecScorer == InitScorer /\ [][NextScorer]_vars

(***************************************************************************)
(* Claims about the confidence scorer and the PR gate                      *)
(***************************************************************************)

C6_OverallScore ==
    confidence # NoResult =>
        LET c == confidence.components
            tr == input.testResults
            q == input.qualityMetrics
            vs == input.validationStats
            HalfUp(num, den) == (2 * num + den) \div (2 * den)
        IN  /\ tr.totalTests > 0 =>
                  c.testPassRate.score = HalfUp(100 * tr.passedTests, tr.totalTests)
            /\ c.riskCoverage.score = input.coverageMetrics.riskWeightedCoverage
            /\ c.testQuality.score =
                  IF q = <<>> THEN 0 ELSE HalfUp(SumSeq(q), Len(q))
            /\ q = <<>> => c.testQuality.status = "poor"
            /\ c.humanValidationRate.score =
                  IF vs.totalValidations = 0 THEN 100
                  ELSE HalfUp(100 * vs.approvedTests, vs.totalValidations)
            /\ confidence.overallScore =
                  HalfUp(4 * c.testPassRate.score + 3 * c.riskCoverage.score
                         + 2 * c.testQuality.score + c.humanValidationRate.score,
                         10)
            /\ confidence.overallScore \in 0..100
            /\ (/\ c.testPassRate.score = 100 /\ c.riskCoverage.score = 100
                /\ c.testQuality.score = 100 /\ c.humanValidationRate.score = 100)
               => (/\ confidence.overallScore = 100
                   /\ confidence.recommendation = "ready-to-release")

(***************************************************************************)
(* Claims about the coverage analyzer                                      *)
(***************************************************************************)
\* number of the mappings of a risk level, or of the tested ones among them
CountAt(riskLevel, testedOnly) ==
    Cardinality({k \in 1..Len(mappings) :
        /\ mappings[k].riskClassification.riskLevel = riskLevel
        /\ (testedOnly => mappings[k].isTested)})

\* round(0.4*critical% + 0.3*high% + 0.2*medium% + 0.1*low%) in exact
\* arithmetic, a level's percentage being 100*tested/total, or 0 when the
\* level has no features; halves round upwards
ExactWeightedCoverage ==
    LET Total(l) == CountAt(l, FALSE)
        Den(l) == IF Total(l) = 0 THEN 1 ELSE Total(l)
        d == Den("critical") * Den("high") * Den("medium") * Den("low")
        Term(l, tenths) == tenths * 10 * CountAt(l, TRUE) * (d \div Den(l))
        n == Term("critical", 4) + Term("high", 3) + Term("medium", 2)
                 + Term("low", 1)
    IN  (2 * n + d) \div (2 * d)

\* C7: riskWeightedCoverage = round(0.4*critical% + 0.3*high% + 0.2*medium%
\* + 0.1*low%), a level's percentage being 100*tested/total at that level
\* and 0 when the level has no features; when every feature is untested all
\* four percentages and riskWeightedCoverage are 0; one untested critical
\* feature plus three tested low features give 10.
C7_RiskWeightedCoverage ==
    metrics # NoResult =>
        /\ metrics.riskWeightedCoverage = ExactWeightedCoverage
        /\ \A k \in 1..4 :
              LET l == RiskLevels[k]
                  c == metrics.coverageByRisk[l]
              IN  /\ c.totalFeatures = CountAt(l, FALSE)
                  /\ c.testedFeatures = CountAt(l, TRUE)
                  /\ c.testedFeatures = 0 => c.coveragePercentage = FromInt(0)
                  /\ (c.totalFeatures > 0 /\ c.testedFeatures = c.totalFeatures)
                        => c.coveragePercentage = FromInt(100)
        /\ (\A k \in 1..Len(mappings) : ~mappings[k].isTested)
              => metrics.riskWeightedCoverage = 0
        /\ mappings = Suite(<<0, 1>>, <<0, 0>>, <<0, 0>>, <<3, 3>>)
              => metrics.riskWeightedCoverage = 10

\* C8: a list with at least one feature in which every feature is tested
\* gets riskWeightedCoverage = 100.
C8_AllTested ==
    (/\ metrics # NoResult
     /\ Len(mappings) >= 1
     /\ \A k \in 1..Len(mappings) : mappings[k].isTested)
        => metrics.riskWeightedCoverage = 100

\* C9: gaps holds exactly one entry for each untested mapping and none for a
\* tested one; a gap's priority is urgent if its riskLevel is critical or its
\* riskScore >= 90, else high if the level is high or the score >= 70, else
\* medium if the level is medium or the score >= 50, else low; the list is
\* ordered urgent, high, medium, low, gaps of equal priority in input order.
C9_Gaps ==
    metrics # NoResult =>
        LET g == metrics.gaps
            Rank(p) == CASE p = "urgent" -> 0 [] p = "high" -> 1
                         [] p = "medium" -> 2 [] p = "low" -> 3
        IN  /\ \A k \in 1..Len(mappings) :
                  Cardinality({j \in 1..Len(g) : g[j].featureName = k})
                      = IF mappings[k].isTested THEN 0 ELSE 1
            /\ \A j \in 1..Len(g) :
                  /\ g[j].featureName \in 1..Len(mappings)
                  /\ g[j].riskLevel
                        = mappings[g[j].featureName].riskClassification.riskLevel
                  /\ g[j].riskScore
                        = mappings[g[j].featureName].riskClassification.riskScore
                  /\ g[j].priority =
                        IF g[j].riskLevel = "critical" \/ g[j].riskScore >= 90
                        THEN "urgent"
                        ELSE IF g[j].riskLevel = "high" \/ g[j].riskScore >= 70
                        THEN "high"
                        ELSE IF g[j].riskLevel = "medium" \/ g[j].riskScore >= 50
                        THEN "medium"
                        ELSE "low"
            /\ \A i, j \in 1..Len(g) :
                  i < j =>
                      \/ Rank(g[i].priority) < Rank(g[j].priority)
                      \/ /\ g[i].priority = g[j].priority
                         /\ g[i].featureName < g[j].featureName

\* C9 witness: three gaps out of three untested features; the last feature,
\* low by level but urgent by its score, has moved to the front, and the two
\* others, of equal priority, have kept their order
C9_Witness ==
    /\ metrics # NoResult
    /\ Len(metrics.gaps) = 3
    /\ metrics.gaps[1].featureName = 3
    /\ metrics.gaps[1].riskLevel = "low"
    /\ metrics.gaps[1].priority = "urgent"
    /\ metrics.gaps[2].featureName = 1
    /\ metrics.gaps[3].featureName = 2
    /\ metrics.gaps[2].priority = metrics.gaps[3].priority

(***************************************************************************)
(* Claims about the risk classifier                                        *)
(***************************************************************************)
\* C10: when no configuration entry matches the feature name and the
\* context supplies no riskLevel, classifyFeature derives riskLevel from the
\* integer riskScore by the breakpoints >= 85 critical, >= 65 high, >= 40
\* medium, else low; every score in 0..100 maps to exactly one level
\* (85 critical, 84 high, 65 high, 64 medium, 40 medium, 39 low).
C10_DerivedRiskLevel ==
    LET Level(score) ==
            IF score >= 85 THEN "critical"
            ELSE IF score >= 65 THEN "high"
            ELSE IF score >= 40 THEN "medium"
            ELSE "low"
        noMatch ==
            \A k \in 1..Len(config.features) :
                /\ ~IsInvalidPattern(config.features[k].pattern)
                /\ ~PatternTest(config.features[k].pattern,
                              classifyArgs.featureName)
        noLevel == classifyArgs.context.riskLevel = Undefined
    IN  /\ (classification # NoResult /\ noMatch /\ noLevel) =>
              /\ "threw" \notin DOMAIN classification
              /\ classification.riskScore \in 0..100
              /\ classification.riskLevel = Level(classification.riskScore)
        /\ \A score \in 0..100 : determineRiskLevel(score) = Level(score)
        /\ <<determineRiskLevel(85), determineRiskLevel(84),
             determineRiskLevel(65), determineRiskLevel(64),
             determineRiskLevel(40), determineRiskLevel(39)>>
             = <<"critical", "high", "high", "medium", "medium", "low">>

\* C10 witness: a feature that no entry of a non-empty configuration
\* matches, classified with a context that sets no riskLevel, scored 83 and
\* therefore high
C10_Witness ==
    /\ classification # NoResult
    /\ Len(config.features) > 0
    /\ \A k \in 1..Len(config.features) :
          /\ ~IsInvalidPattern(config.features[k].pattern)
          /\ ~PatternTest(config.features[k].pattern,
                              classifyArgs.featureName)
    /\ classifyArgs.context.riskLevel = Undefined
    /\ classifyArgs.context.businessImpact = "critical"
    /\ classification.riskScore = 83
    /\ classification.riskLevel = "high"

(***************************************************************************)
(* Claims about the quality scorer                                         *)
(***************************************************************************)
\* the fixed deduction of the check that pushes the issue
DeductionOf(issue) ==
    CASE issue.message = "Missing describe block" -> 30
      [] issue.message = "Missing it/test block" -> 30
      [] issue.message = "Inconsistent quote usage" -> 5
      [] issue.message = "Missing semicolons in some statements" -> 5
      [] issue.message
           = "Only one test case found. Consider adding more scenarios." -> 20
      [] issue.message = "No edge case testing detected" -> 15
      [] issue.message = "No error handling scenarios found" -> 10
      [] issue.message = "No setup hooks (beforeEach) found" -> 5
      [] issue.message = "No assertions found in test" -> 50
      [] issue.message = "Some test cases may be missing assertions" -> 20
      [] issue.message
           = "Only weak assertions found. Consider adding more specific assertions."
           -> 15
      [] issue.message = "Consider adding more assertions per test case" -> 10
      [] issue.message = "Consider adding more comments for clarity" -> 10
      [] issue.message = "Magic numbers detected. Consider using constants." -> 15
      [] issue.message
           = "Hardcoded URLs found. Use baseUrl or environment variables." -> 15
      [] issue.message = "Some test descriptions are too short" -> 5
      [] issue.message
           = "Using fragile selectors. Prefer data-testid attributes." -> 20
      [] issue.message
           = "Hard waits detected. Use implicit waits or assertions instead."
           -> 15
      [] issue.message
           = "Consider using custom commands for repetitive actions" -> 10
      [] issue.message
           = "Shared state detected. Ensure proper test isolation." -> 15

\* 100 minus the deductions of the issues of a category, floored at 0
RECURSIVE DeductionsIn(_, _)
DeductionsIn(issues, category) ==
    IF issues = <<>> THEN 0
    ELSE (IF Head(issues).category = category THEN DeductionOf(Head(issues))
          ELSE 0) + DeductionsIn(Tail(issues), category)

ExpectedScore(issues, category) ==
    IF DeductionsIn(issues, category) >= 100 THEN 0
    ELSE 100 - DeductionsIn(issues, category)

\* the text has no describe(, no it( and no assertion call
NoTestConstruct(code) ==
    /\ ~Includes(code, "describe(")
    /\ ~Includes(code, "it(")
    /\ MatchCount(code, <<".should(", ".expect(">>) = 0

RejectionRecord(testName, reason, comments, timestamp, reviewer) ==
    [testName |-> testName, reason |-> reason, comments |-> comments,
     timestamp |-> timestamp, reviewer |-> reviewer]

\* the record trackRejection builds from a decision
RecordOf(decision) ==
    RejectionRecord(decision.testName,
                    OrElse(decision.rejectionReason, "other"),
                    OrElse(decision.reviewerComments, ""),
                    decision.reviewedAt,
                    decision.reviewedBy)

\* `rejection-${Date.now()}.json`
RejectionFileName(now) == "rejection-" \o ToString(now) \o ".json"

\* fs.promises.writeFile: creates the file or replaces its content
WriteFile(dir, fileName, content) ==
    [f \in DOMAIN dir \cup {fileName} |->
        IF f = fileName THEN content ELSE dir[f]]

\* the directory after trackRejection(decision) at time now
trackRejection(dir, decision, now) ==
    IF decision.approved
    THEN dir
    ELSE WriteFile(dir, RejectionFileName(now), RecordOf(decision))

\* files.filter(f => f.startsWith('rejection-') && f.endsWith('.json'))
IsRejectionFile(f) == StartsAt(f, 1, "rejection-") /\ EndsWith(f, ".json")

\* the orders in which fs.promises.readdir may list the directory
ReaddirOrders(dir) ==
    {files \in [1..Cardinality(DOMAIN dir) -> DOMAIN dir] :
        \A a, b \in 1..Cardinality(DOMAIN dir) : a # b => files[a] # files[b]}

\* records.sort((a, b) => b.timestamp.getTime() - a.timestamp.getTime()):
\* a stable sort, latest first
RECURSIVE InsertRecord(_, _)
InsertRecord(sorted, record) ==
    IF sorted = <<>> THEN <<record>>
    ELSE IF Head(sorted).timestamp >= record.timestamp
         THEN <<Head(sorted)>> \o InsertRecord(Tail(sorted), record)
         ELSE <<record>> \o sorted

RECURSIVE SortRecords(_)
SortRecords(list) ==
    IF list = <<>> THEN <<>>
    ELSE InsertRecord(SortRecords(SubSeq(list, 1, Len(list) - 1)),
                      list[Len(list)])

\* the records directory after it was removed or made unreadable
NoDirectory == [missing |-> TRUE]

\* the content of a file that JSON.parse rejects
CorruptContent == [corrupt |-> TRUE]

\* what getAllRejections returns when readdir lists the files in this
\* order, or the exception of readdir or JSON.parse that it lets through
getAllRejections(dir, files) ==
    LET jsonFiles == SelectSeq(files, IsRejectionFile)
        contents == [k \in 1..Len(jsonFiles) |-> dir[jsonFiles[k]]]
    IN  IF dir = NoDirectory THEN [threw |-> "ENOENT"]
        ELSE IF \E k \in 1..Len(jsonFiles) : contents[k] = CorruptContent
        THEN [threw |-> "SyntaxError"]
        ELSE [list |-> SortRecords(contents)]

(***************************************************************************)
(* Use of the rejection tracker                                            *)
(***************************************************************************)
TestNameSamples == {"login.cy.ts", "cart.cy.ts"}
ReasonSamples == {Undefined, "poor-selectors"}

\* the decisions a reviewer may hand in at time now
Decisions(now) ==
    {[testName |-> n, approved |-> a, rejectionReason |-> r,
      reviewerComments |-> Undefined, reviewedAt |-> t, reviewedBy |-> "qa"] :
        n \in TestNameSamples, a \in BOOLEAN, r \in ReasonSamples,
        t \in {0, now}}

\* the constructor leaves an empty records directory
InitTracker ==
    /\ clock = 0
    /\ rejectionFiles = <<>>
    /\ tracked = <<>>
    /\ records = NoResult
    /\ statsArgs = NoResult
    /\ rejectionStats = NoResult
    /\ OnlyTracker

\* a millisecond passes
Tick ==
    /\ clock < MaxClock
    /\ clock' = clock + 1
    /\ UNCHANGED <<rejectionFiles, tracked, records, statsArgs, rejectionStats>>
    /\ UNCHANGED exceptTracker

TrackRejection ==
    /\ Len(tracked) < MaxCalls
    /\ \E decision \in Decisions(clock) :
        /\ rejectionFiles' = trackRejection(rejectionFiles, decision, clock)
        /\ tracked' = Append(tracked, decision)
    /\ records' = NoResult
    /\ UNCHANGED <<clock, statsArgs, rejectionStats>>
    /\ UNCHANGED exceptTracker

GetAllRejections ==
    /\ \E files \in ReaddirOrders(rejectionFiles) :
        records' = getAllRejections(rejectionFiles, files)
    /\ UNCHANGED <<clock, rejectionFiles, tracked, statsArgs, rejectionStats>>
    /\ UNCHANGED exceptTracker

NextTracker == Tick \/ TrackRejection \/ GetAllRejections

SpecTracker == InitTracker /\ [][NextTracker]_vars

(***************************************************************************)
(* Claims about the rejection tracker                                      *)
(***************************************************************************)

\* the records the rejecting calls made so far were to add, in call order
RejectedSoFar ==
    LET rejecting == SelectSeq(tracked, LAMBDA d : ~d.approved)
    IN  [k \in 1..Len(rejecting) |-> RecordOf(rejecting[k])]

\* how often a record occurs in a list
Occurrences(list, record) ==
    Cardinality({k \in 1..Len(list) : list[k] = record})

\* C3: the rejection log is append-only with one record per rejection: after
\* any sequence of trackRejection calls, with any timing between them,
\* getAllRejections returns exactly one record for every call made with
\* approved = false, no earlier record is lost or overwritten by a later
\* call, and a call with approved = true adds no record.
C3_OneRecordPerRejection ==
    records # NoResult =>
        /\ Len(records.list) = Len(RejectedSoFar)
        /\ \A k \in 1..Len(RejectedSoFar) :
            Occurrences(records.list, RejectedSoFar[k])
                = Occurrences(RejectedSoFar, RejectedSoFar[k])

(***************************************************************************)
(* Validation session (the human validation CLI)                           *)
(*                                                                         *)
(* Two versions of main exist: "counters" keeps the session counters and   *)
(* globalNum, "preview" has neither and offers [T]est.  A step of the      *)
(* model runs main from one answer of the reviewer to the next prompt or   *)
(* to the end of main.  Log entries and files are held without their       *)
(* timestamps; the file names of the pending tests are non-empty, so the   *)
(* fallback name of an approved file is not used.                          *)
(***************************************************************************)
PendingTest(fileName, code) == [fileName |-> fileName, code |-> code]

\* pendingTests.filter(t => t.code && !t.code.includes('// TODO: Implement'))
IsReviewable(test) ==
    test.code # "" /\ ~Includes(test.code, "// TODO: Implement")

\* pendingTests.splice(i, 1), i counted from 0
Splice(list, at) ==
    [k \in 1..(Len(list) - 1) |-> IF k <= at THEN list[k] ELSE list[k + 1]]

\* updateApprovedTests(test): read the array, push, write it back
updateApprovedTests(test) == Append(approvedTests, [fileName |-> test.fileName])

\* updateRejectionTracking(test, reason, category)
updateRejectionTracking(test, category) ==
    Append(rejectionTracking,
           [fileName |-> test.fileName, category |-> category])

\* session.approved++ and its like; the "preview" version has no counters
Counted(field) ==
    IF variant = "counters" THEN [session EXCEPT ![field] = @ + 1] ELSE session

\* the head of while (i < pendingTests.length) with the list and index the
\* answer left: show the next test, or leave the loop and write
\* pending-tests.json
LoopHead(tests, at) ==
    /\ pendingTests' = tests
    /\ cursor' = at
    /\ IF at < Len(tests)
       THEN /\ pc' = "prompt"
            /\ globalNum' = IF variant = "counters" THEN globalNum + 1
                                                    ELSE globalNum
            /\ UNCHANGED pendingFile
       ELSE /\ pc' = "done"
            /\ pendingFile' = [exists |-> TRUE, tests |-> tests]
            /\ UNCHANGED globalNum

\* the test on show
CurrentTest == pendingTests[cursor + 1]

(***************************************************************************)
(* Use of the validation session                                           *)
(***************************************************************************)
CodeSamples ==
    {"it('loads', () => { cy.visit('/') })",
     "it('loads', () => {\n  // TODO: Implement\n})",
     ""}

PendingFileName(k) == "test-" \o ToString(k) \o ".cy.ts"

PendingLists ==
    UNION {{[k \in 1..n |-> PendingTest(PendingFileName(k), codes[k])] :
                codes \in [1..n -> CodeSamples]} : n \in 0..MaxPending}

PendingFiles ==
    {[exists |-> FALSE, tests |-> <<>>]}
        \cup {[exists |-> TRUE, tests |-> tests] : tests \in PendingLists}

CategorySamples == {"Poor selectors", "Other"}

InitSession ==
    /\ variant \in {"counters", "preview"}
    /\ pendingFile \in PendingFiles
    /\ atStart = pendingFile.tests
    /\ pendingTests = <<>>
    /\ cursor = 0
    /\ globalNum = 0
    /\ session = [approved |-> 0, rejected |-> 0, skipped |-> 0]
    /\ approvedDir = {}
    /\ approvedTests = <<>>
    /\ rejectedDir = {}
    /\ rejectionTracking = <<>>
    /\ retries = 0
    /\ inFlight = NoResult
    /\ pc = "start"
    /\ OnlySession

\* main up to the first prompt: read and filter pending-tests.json; return
\* when it cannot be read or nothing is left to validate
Load ==
    /\ pc = "start"
    /\ LET loaded == SelectSeq(pendingFile.tests, IsReviewable)
       IN  IF ~pendingFile.exists \/ loaded = <<>>
           THEN /\ pc' = "done"
                /\ UNCHANGED <<pendingFile, pendingTests, cursor, globalNum>>
           ELSE LoopHead(loaded, 0)
    /\ UNCHANGED <<inFlight, variant, atStart, session, approvedDir, approvedTests,
                   rejectedDir, rejectionTracking, retries>>
    /\ UNCHANGED exceptSession

\* answer 'a': the test file is written, then the approved log; either write
\* may throw, the catch block then resolves without removing the test
Approve ==
    /\ pc = "prompt"
    /\ \E outcome \in {"saved", "writeFileFails", "logFails"} :
        IF outcome = "saved"
        THEN /\ approvedDir' = approvedDir \cup {CurrentTest.fileName}
             /\ approvedTests' = updateApprovedTests(CurrentTest)
             /\ session' = Counted("approved")
             /\ LoopHead(Splice(pendingTests, cursor), cursor)
             /\ UNCHANGED retries
        ELSE /\ retries < MaxRetries
             /\ retries' = retries + 1
             /\ approvedDir' = IF outcome = "logFails"
                               THEN approvedDir \cup {CurrentTest.fileName}
                               ELSE approvedDir
             /\ LoopHead(pendingTests, cursor)
             /\ UNCHANGED <<approvedTests, session>>
    /\ UNCHANGED <<inFlight, variant, atStart, rejectedDir, rejectionTracking>>
    /\ UNCHANGED exceptSession

\* answer 'r': the rejection file is written, then the rejection log; a
\* write that throws is not caught in main and ends the process
Reject ==
    /\ pc = "prompt"
    /\ \E category \in CategorySamples,
          outcome \in {"logged", "writeFileFails", "logFails"} :
        /\ rejectedDir' = IF outcome = "writeFileFails"
                          THEN rejectedDir
                          ELSE rejectedDir \cup {CurrentTest.fileName \o ".json"}
        /\ IF outcome = "logged"
           THEN /\ rejectionTracking' =
                        updateRejectionTracking(CurrentTest, category)
                /\ session' = Counted("rejected")
                /\ LoopHead(Splice(pendingTests, cursor), cursor)
           ELSE /\ pc' = "failed"
                /\ UNCHANGED <<rejectionTracking, session, pendingFile,
                               pendingTests, cursor, globalNum>>
    /\ UNCHANGED <<inFlight, variant, atStart, approvedDir, approvedTests, retries>>
    /\ UNCHANGED exceptSession

\* answer 's'
Skip ==
    /\ pc = "prompt"
    /\ session' = Counted("skipped")
    /\ LoopHead(pendingTests, cursor + 1)
    /\ UNCHANGED <<inFlight, variant, atStart, approvedDir, approvedTests, rejectedDir,
                   rejectionTracking, retries>>
    /\ UNCHANGED exceptSession

\* answer 't' of the "preview" version: runTestPreview writes the temporary
\* spec file, runs it and unlinks it; the prompt is asked again
RunTestPreview ==
    /\ pc = "prompt"
    /\ variant = "preview"
    /\ retries < MaxRetries
    /\ retries' = retries + 1
    /\ UNCHANGED <<inFlight, variant, pendingFile, atStart, pendingTests, cursor,
                   globalNum, session, approvedDir, approvedTests,
                   rejectedDir, rejectionTracking, pc>>
    /\ UNCHANGED exceptSession

\* any other answer: the prompt is asked again
InvalidChoice ==
    /\ pc = "prompt"
    /\ retries < MaxRetries
    /\ retries' = retries + 1
    /\ UNCHANGED <<inFlight, variant, pendingFile, atStart, pendingTests, cursor,
                   globalNum, session, approvedDir, approvedTests,
                   rejectedDir, rejectionTracking, pc>>
    /\ UNCHANGED exceptSession

NextSession ==
    Load \/ Approve \/ Reject \/ Skip \/ RunTestPreview \/ InvalidChoice

SpecSession == InitSession /\ [][NextSession]_vars

(***************************************************************************)
(* Claims about the validation session                                     *)
(***************************************************************************)

\* number of entries a log holds for a test
EntriesFor(log, test) ==
    Cardinality({k \in 1..Len(log) : log[k].fileName = test.fileName})

\* the three places of a test
IsApproved(test) ==
    test.fileName \in approvedDir /\ EntriesFor(approvedTests, test) = 1
IsRejected(test) == EntriesFor(rejectionTracking, test) = 1
IsStillPending(test) ==
    \E k \in 1..Len(pendingFile.tests) : pendingFile.tests[k] = test

PlacesOf(test) ==
    (IF IsApproved(test) THEN 1 ELSE 0)
        + (IF IsRejected(test) THEN 1 ELSE 0)
        + (IF IsStillPending(test) THEN 1 ELSE 0)

\* C4: when a validation session ends, every test that was in
\* pending-tests.json when the session started is in exactly one place:
\* approved (test file written and one entry in approved-tests.json),
\* rejected (one entry in rejection-tracking.json) or still in
\* pending-tests.json; and pending-tests.json then holds exactly the tests
\* that were neither approved nor rejected, in their original order.
C4_EveryTestInOnePlace ==
    pc = "done" =>
        /\ \A k \in 1..Len(atStart) : PlacesOf(atStart[k]) = 1
        /\ pendingFile.tests =
                SelectSeq(atStart,
                          LAMBDA t : ~IsApproved(t) /\ ~IsRejected(t))

(***************************************************************************)
(* RiskClassifier.classifyFeatures                                         *)
(***************************************************************************)
\* featureNames.map((name) => this.classifyFeature(name)): no context is
\* passed; an exception of one call leaves map and classifyFeatures
classifyFeatures(cfg, featureNames) ==
    LET results ==
            [k \in 1..Len(featureNames) |->
                classifyFeature(cfg, featureNames[k], NoEntry)]
    IN  IF \E k \in 1..Len(featureNames) : "threw" \in DOMAIN results[k]
        THEN [threw |-> "SyntaxError"]
        ELSE [list |-> results]

FeatureNameLists ==
    UNION {[1..n -> FeatureNameSamples] : n \in 0..MaxNames}

InitClassifyFeatures ==
    /\ config \in RiskConfigs
    /\ classifyArgs \in {[featureNames |-> names] : names \in FeatureNameLists}
    /\ classification = NoResult
    /\ OnlyClassifier

\* classifier.classifyFeatures(featureNames)
ClassifyFeatures ==
    /\ classification = NoResult
    /\ classification' = classifyFeatures(config, classifyArgs.featureNames)
    /\ UNCHANGED <<config, classifyArgs>>
    /\ UNCHANGED exceptClassifier

NextClassifyFeatures == ClassifyFeatures

SpecClassifyFeatures == InitClassifyFeatures /\ [][NextClassifyFeatures]_vars

(***************************************************************************)
(* Claims about the configuration of the risk classifier                   *)
(***************************************************************************)

\* every pattern of the configuration is valid and none matches the name
NoEntryMatches(featureName) ==
    \A k \in 1..Len(config.features) :
        /\ ~IsInvalidPattern(config.features[k].pattern)
        /\ ~PatternTest(config.features[k].pattern, featureName)

\* C11: when no configuration entry matches the feature name and no context
\* is supplied, classifyFeature returns the configured defaultRiskLevel as
\* the classification's riskLevel.
C11_DefaultRiskLevel ==
    (/\ classification # NoResult
     /\ NoEntryMatches(classifyArgs.featureName)
     /\ classifyArgs.context = NoEntry)
        => classification.riskLevel = config.defaultRiskLevel

\* C12: an invalid regex pattern in one configuration entry never makes
\* classifyFeature or classifyFeatures fail: the bad entry is skipped and
\* every feature name is classified from the remaining entries or the
\* defaults.
C12_InvalidPatternSkipped ==
    classification # NoResult =>
        /\ "threw" \notin DOMAIN classification
        /\ Len(classification.list) = Len(classifyArgs.featureNames)

(***************************************************************************)
(* Dates.  A Date is its getTime(), the milliseconds since the epoch in    *)
(* UTC.  The local time zone is the offset from UTC in hours before and    *)
(* from the instant changeAt on (equal offsets: no daylight saving).  The   *)
(* text toISOString().split('T')[0] names the UTC day of the instant; it   *)
(* is held as the number of that day.                                      *)
(***************************************************************************)
MsPerHour == 3600000
MsPerDay == 24 * MsPerHour

TimeZone(before, after, changeAt) ==
    [before |-> before, after |-> after, changeAt |-> changeAt]

\* LocalTime(t): the wall clock of the zone at the instant t
LocalTime(zone, t) ==
    t + (IF t < zone.changeAt THEN zone.before ELSE zone.after) * MsPerHour

\* UTC(local): the instant at which the wall clock of the zone shows local
UTCOf(zone, local) ==
    LET early == local - zone.before * MsPerHour
    IN  IF early < zone.changeAt THEN early
        ELSE local - zone.after * MsPerHour

\* date.setDate(date.getDate() - i): the local day i calendar days earlier,
\* with the time within the day kept
SetDateBack(zone, t, i) ==
    LET local == LocalTime(zone, t)
    IN  UTCOf(zone, ((local \div MsPerDay) - i) * MsPerDay + (local % MsPerDay))

\* date.toISOString().split('T')[0]
ISODate(t) == t \div MsPerDay

(***************************************************************************)
(* RejectionTracker.calculateStats                                         *)
(***************************************************************************)
\* the keys of rejectionsByReason, in the order of the object literal
ReasonNames ==
    <<"incorrect-assertions", "missing-edge-cases", "poor-selectors",
      "syntax-errors", "incomplete-coverage", "poor-maintainability",
      "not-aligned-with-requirements", "security-concerns",
      "performance-issues", "other">>

days == 30

\* one entry for each i = days - 1 down to 0
calculateTrendData(decisions, now, zone) ==
    [k \in 1..days |->
        LET dateStr == ISODate(SetDateBack(zone, now, days - k))
            dayDecisions ==
                SelectSeq(decisions,
                          LAMBDA d : ISODate(d.reviewedAt) = dateStr)
            rejectionCount ==
                Len(SelectSeq(dayDecisions, LAMBDA d : ~d.approved))
            approvalCount ==
                Len(SelectSeq(dayDecisions, LAMBDA d : d.approved))
            total == Len(dayDecisions)
        IN  [date |-> dateStr,
             rejectionCount |-> rejectionCount,
             approvalCount |-> approvalCount,
             rejectionRate |-> IF total > 0
                               THEN Percentage(rejectionCount, total)
                               ELSE FromInt(0)]]

\* .sort((a, b) => b.count - a.count): a stable sort, largest count first
RECURSIVE InsertPattern(_, _)
InsertPattern(sorted, pattern) ==
    IF sorted = <<>> THEN <<pattern>>
    ELSE IF Head(sorted).count >= pattern.count
         THEN <<Head(sorted)>> \o InsertPattern(Tail(sorted), pattern)
         ELSE <<pattern>> \o sorted

RECURSIVE SortPatterns(_)
SortPatterns(list) ==
    IF list = <<>> THEN <<>>
    ELSE InsertPattern(SortPatterns(SubSeq(list, 1, Len(list) - 1)),
                       list[Len(list)])

\* the statistics of the decisions over the records read
StatsOf(decisions, list, now, zone) ==
    LET totalDecisions == Len(decisions)
        totalRejections == Len(SelectSeq(decisions, LAMBDA d : ~d.approved))
        rejectionRate ==
            IF totalDecisions > 0
            THEN Percentage(totalRejections, totalDecisions)
            ELSE FromInt(0)
        WithReason(reason) == SelectSeq(list, LAMBDA r : r.reason = reason)
        rejectionsByReason ==
            [reason \in {ReasonNames[k] : k \in 1..Len(ReasonNames)} |->
                Len(WithReason(reason))]
        Pattern(reason) ==
            LET count == rejectionsByReason[reason]
                found == WithReason(reason)
            IN  [reason |-> reason,
                 count |-> count,
                 percentage |-> IF totalRejections > 0
                                THEN Percentage(count, totalRejections)
                                ELSE FromInt(0),
                 examples |->
                    [k \in 1..(IF Len(found) < 3 THEN Len(found) ELSE 3) |->
                        found[k].comments]]
        commonPatterns ==
            SortPatterns(SelectSeq([k \in 1..Len(ReasonNames) |->
                                        Pattern(ReasonNames[k])],
                                   LAMBDA p : p.count > 0))
    IN  [totalRejections |-> totalRejections,
         rejectionsByReason |-> rejectionsByReason,
         rejectionRate |-> rejectionRate,
         commonPatterns |-> commonPatterns,
         trendData |-> calculateTrendData(decisions, now, zone)]

\* historicalRecords || (await this.getAllRejections()): an exception of
\* the read leaves calculateStats
calculateStats(decisions, historicalRecords, dir, files, now, zone) ==
    LET read == IF historicalRecords.given
                THEN [list |-> historicalRecords.list]
                ELSE getAllRejections(dir, files)
    IN  IF "threw" \in DOMAIN read THEN read
        ELSE StatsOf(decisions, read.list, now, zone)

(***************************************************************************)
(* Use of calculateStats                                                   *)
(***************************************************************************)
\* the instant the zones with daylight saving change their offset: 01:00
\* UTC of day 13
ChangeAt == 13 * MsPerDay + MsPerHour

\* UTC, a zone five hours ahead, and a zone on UTC in winter and an hour
\* ahead in summer, at the end and at the start of its summer time
ZoneSamples ==
    {TimeZone(0, 0, 0), TimeZone(5, 5, 0),
     TimeZone(1, 0, ChangeAt), TimeZone(0, 1, ChangeAt)}

\* midnight UTC of day 20 and the hour before it
NowSamples == {20 * MsPerDay, 20 * MsPerDay - MsPerHour}

\* decisions reviewed at noon of day 13 or at the time of the call
DecisionSamples(now) ==
    {[testName |-> "login.cy.ts", approved |-> a,
      rejectionReason |-> IF a THEN Undefined ELSE "poor-selectors",
      reviewerComments |-> Undefined, reviewedAt |-> t, reviewedBy |-> "qa"] :
        a \in BOOLEAN, t \in {13 * MsPerDay + 12 * MsPerHour, now}}

DecisionLists(now) ==
    UNION {[1..n -> DecisionSamples(now)] : n \in 0..MaxDecisions}

StoredRecord(reason, timestamp) ==
    RejectionRecord("cart.cy.ts", reason, "brittle", timestamp, "qa")

\* historicalRecords: not passed, none, one or two records
HistorySamples ==
    {[given |-> FALSE, list |-> <<>>],
     [given |-> TRUE, list |-> <<>>],
     [given |-> TRUE, list |-> <<StoredRecord("poor-selectors", 0)>>],
     [given |-> TRUE, list |-> <<StoredRecord("poor-selectors", 0),
                                 StoredRecord("other", MsPerDay)>>]}

\* the records directory: removed, empty, with a record, and with a record
\* and a file that is not JSON
StoreSamples ==
    {NoDirectory,
     <<>>,
     WriteFile(<<>>, RejectionFileName(0), StoredRecord("other", 0)),
     WriteFile(WriteFile(<<>>, RejectionFileName(0), StoredRecord("other", 0)),
               RejectionFileName(1), CorruptContent)}

InitStats ==
    /\ clock \in NowSamples
    /\ rejectionFiles \in StoreSamples
    /\ tracked = <<>>
    /\ records = NoResult
    /\ statsArgs \in {[decisions |-> ds, historicalRecords |-> h, zone |-> z] :
                        ds \in UNION {DecisionLists(now) : now \in NowSamples},
                        h \in HistorySamples, z \in ZoneSamples}
    /\ \A k \in 1..Len(statsArgs.decisions) :
          statsArgs.decisions[k] \in DecisionSamples(clock)
    /\ rejectionStats = NoResult
    /\ OnlyTracker

\* tracker.calculateStats(decisions, historicalRecords) at the time clock
CalculateStats ==
    /\ rejectionStats = NoResult
    /\ \E files \in ReaddirOrders(rejectionFiles) :
        rejectionStats' =
            calculateStats(statsArgs.decisions, statsArgs.historicalRecords,
                           rejectionFiles, files, clock, statsArgs.zone)
    /\ UNCHANGED <<clock, rejectionFiles, tracked, records, statsArgs>>
    /\ UNCHANGED exceptTracker

NextStats == GetAllRejections \/ CalculateStats

SpecStats == InitStats /\ [][NextStats]_vars

(***************************************************************************)
(* Claims about the statistics of the rejection tracker                    *)
(***************************************************************************)

\* the records directory cannot be read, or holds a file that is not JSON
StoreDamaged ==
    IF rejectionFiles = NoDirectory THEN TRUE
    ELSE \E f \in DOMAIN rejectionFiles : rejectionFiles[f] = CorruptContent

\* C13: when the rejection record store is unreadable or contains a corrupt
\* (non-JSON) record file, getAllRejections, and calculateStats when it
\* reads the history through it, degrade to an empty collection of records
\* instead of throwing to the caller.
C13_DegradesToEmpty ==
    StoreDamaged =>
        /\ records # NoResult => records = [list |-> <<>>]
        /\ (rejectionStats # NoResult /\ ~statsArgs.historicalRecords.given)
              => "threw" \notin DOMAIN rejectionStats

(***************************************************************************)
(* RiskCoverageAnalyzer.generateHeatmapData                                *)
(*                                                                         *)
(* The two dimensions are numbers that may be NaN: 0 / 0 is NaN and        *)
(* Math.ceil(NaN) is NaN.  A cell carries the fields of its mapping; the   *)
(* mappings of the model have no testFiles, so testCount is left out.      *)
(***************************************************************************)
NaN == [nan |-> TRUE]
Num(n) == [value |-> n]

\* Math.ceil(Math.sqrt(n)) for an integer n >= 0
CeilSqrt(n) ==
    CHOOSE w \in 0..n : w * w >= n /\ \A v \in 0..n : v * v >= n => w <= v

\* Math.ceil(n / width) for integers n >= 0 and width >= 0, width = 0 only
\* when n = 0
CeilDiv(n, width) ==
    IF width = 0 THEN NaN ELSE Num((n + width - 1) \div width)

generateHeatmapData(ms) ==
    LET data ==
            [k \in 1..Len(ms) |->
                [feature |-> ms[k].featureName,
                 riskLevel |-> ms[k].riskClassification.riskLevel,
                 riskScore |-> ms[k].riskClassification.riskScore,
                 isTested |-> ms[k].isTested]]
    IN  [cells |-> data,
         dimensions |->
            [width |-> Num(CeilSqrt(Len(data))),
             height |-> CeilDiv(Len(data), CeilSqrt(Len(data)))]]

InitHeatmap ==
    /\ mappings \in MappingLists
    /\ metrics = NoResult
    /\ heatmap = NoResult
    /\ OnlyCoverage

\* analyzer.generateHeatmapData(mappings)
GenerateHeatmapData ==
    /\ heatmap = NoResult
    /\ heatmap' = generateHeatmapData(mappings)
    /\ UNCHANGED <<mappings, metrics>>
    /\ UNCHANGED exceptCoverage

NextHeatmap == GenerateHeatmapData

SpecHeatmap == InitHeatmap /\ [][NextHeatmap]_vars

(***************************************************************************)
(* Claims about ratios with a zero denominator                             *)
(***************************************************************************)

\* C14: no ratio computed by the core produces NaN or Infinity when its
\* denominator is zero: per-level and overall coverage with no features,
\* test pass rate with totalTests = 0, rejection rate with no decisions, a
\* trend day with no decisions, and the heatmap grid height ceil(n / width)
\* with width = ceil(sqrt(n)) for an empty mapping list all yield 0.
C14_ZeroDenominators ==
    LET coverage == analyzeCoverage(mappings)
        noTests == [totalTests |-> 0, passedTests |-> 0]
        noDecisions == StatsOf(<<>>, <<>>, 20 * MsPerDay, TimeZone(0, 0, 0))
    IN  /\ \A k \in 1..Len(RiskLevels) :
              coverage.coverageByRisk[RiskLevels[k]].totalFeatures = 0
                  => coverage.coverageByRisk[RiskLevels[k]].coveragePercentage
                         = FromInt(0)
        /\ mappings = <<>> => coverage.overallCoverage = FromInt(0)
        /\ calculateTestPassRate(noTests).score = 0
        /\ noDecisions.rejectionRate = FromInt(0)
        /\ \A k \in 1..days : noDecisions.trendData[k].rejectionRate = FromInt(0)
        /\ (heatmap # NoResult /\ mappings = <<>>)
              => heatmap.dimensions.height = Num(0)

\* number of the decisions handed in that were reviewed on a UTC day
ReviewedOn(date, approved) ==
    Len(SelectSeq(statsArgs.decisions,
                  LAMBDA d : ISODate(d.reviewedAt) = date
                                /\ d.approved = approved))

\* C15: calculateStats always returns a trendData series of exactly 30
\* entries, one per calendar day for the 30 days ending today in
\* oldest-first order, whatever the number of decisions and historical
\* records; each day's rejectionCount and approvalCount count only the
\* decisions whose reviewedAt falls on that date, and a day with no
\* decisions has rejectionRate 0.  Today is taken as the date of the call in
\* UTC or in the local zone, whichever the series ends with.
C15_ThirtyDayTrend ==
    (rejectionStats # NoResult /\ "threw" \notin DOMAIN rejectionStats) =>
        LET trend == rejectionStats.trendData
        IN  /\ Len(trend) = 30
            /\ trend[30].date \in {ISODate(clock),
                                   ISODate(LocalTime(statsArgs.zone, clock))}
            /\ \A k \in 1..30 :
                /\ trend[k].date = trend[30].date - (30 - k)
                /\ trend[k].rejectionCount = ReviewedOn(trend[k].date, FALSE)
                /\ trend[k].approvalCount = ReviewedOn(trend[k].date, TRUE)
                /\ (trend[k].rejectionCount + trend[k].approvalCount = 0)
                      => trend[k].rejectionRate = FromInt(0)

(***************************************************************************)
(* TestPrioritizer (src/unnamed/part_010).  A TestInfo carries name,       *)
(* filePath, riskClassification.riskLevel and the optional lastModified,   *)
(* executionTime and failureRate; an optional field that is not there is   *)
(* Absent.  lastModified is a Date in the past, a whole number of hours    *)
(* before Date.now(); executionTime is a number of milliseconds;           *)
(* failureRate is a double.                                                *)
(***************************************************************************)
MaxInfos == 3          \* at most this many tests are handed to a strategy

Absent == [absent |-> TRUE]
DateOf(ms) == [time |-> ms]

riskWeights == [critical |-> 100, high |-> 75, medium |-> 50, low |-> 25]
riskOrder == [critical |-> 0, high |-> 1, medium |-> 2, low |-> 3]
avgExecutionTime == 5000

\* test.lastModified ? (now - test.lastModified.getTime()) / (1000*60*60*24)
\* : 999; the two instants are whole hours apart, so the quotient is the
\* double nearest to hours / 24
daysSinceModified(test, now) ==
    IF test.lastModified = Absent THEN FromInt(999)
    ELSE FDivInt((now - test.lastModified.time) \div MsPerHour, 24)

\* Math.max(0, 100 - daysSinceModified * 5)
changeScore(test, now) ==
    MaxZeroSub(FromInt(100), FMul(daysSinceModified(test, now), FromInt(5)))

\* test.failureRate || 0
failureRateOrZero(test) ==
    IF test.failureRate = Absent THEN <<>> ELSE test.failureRate.value

\* test.executionTime
\*   ? Math.max(0, 100 - (test.executionTime / avgExecutionTime) * 50) : 50
executionScore(test) ==
    IF test.executionTime = Absent \/ test.executionTime.value = 0
    THEN FromInt(50)
    ELSE MaxZeroSub(FromInt(100),
                    FMul(FDivInt(test.executionTime.value, avgExecutionTime),
                         FromInt(50)))

\* riskScore * 0.4 + changeScore * 0.3 + failureScore * 0.2
\*     + executionScore * 0.1, rounded
smartPriority(test, now) ==
    LET riskScore == FromInt(riskWeights[test.riskClassification.riskLevel])
        failureScore == FMul(failureRateOrZero(test), FromInt(100))
    IN  MathRound(FAdd(FAdd(FAdd(FMul(riskScore, FDivInt(4, 10)),
                                 FMul(changeScore(test, now), FDivInt(3, 10))),
                            FMul(failureScore, FDivInt(2, 10))),
                       FMul(executionScore(test), FDivInt(1, 10))))

\* reasons.join(', ') || 'standard priority'
RECURSIVE Join(_)
Join(reasons) ==
    IF reasons = <<>> THEN ""
    ELSE IF Len(reasons) = 1 THEN reasons[1]
    ELSE reasons[1] \o ", " \o Join(Tail(reasons))

smartReason(test, now) ==
    LET level == test.riskClassification.riskLevel
        reasons ==
            (IF riskWeights[level] >= 75 THEN <<level \o " risk">> ELSE <<>>)
            \o (IF FLess(daysSinceModified(test, now), FromInt(7))
                THEN <<"recently modified">> ELSE <<>>)
            \o (IF FLess(FDivInt(1, 10), failureRateOrZero(test))
                THEN <<"high failure rate">> ELSE <<>>)
    IN  IF Join(reasons) = "" THEN "standard priority" ELSE Join(reasons)

\* the TestPriority a strategy's first map makes of tests[index + 1]
TestPriority(strategy, test, index, now) ==
    [testName |-> test.name,
     priority |->
        CASE strategy = "risk" ->
                riskWeights[test.riskClassification.riskLevel]
          [] strategy = "changes" -> MathRound(changeScore(test, now))
          [] strategy = "failureRate" ->
                MathRound(FMul(failureRateOrZero(test), FromInt(100)))
          [] strategy = "smart" -> smartPriority(test, now),
     riskLevel |-> test.riskClassification.riskLevel,
     executionOrder |-> index + 1,
     reason |->
        CASE strategy = "risk" ->
                "Risk level: " \o test.riskClassification.riskLevel
          [] strategy = "changes" ->
                "Modified " \o ToString(MathRound(daysSinceModified(test, now)))
                \o " days ago"
          [] strategy = "failureRate" ->
                "Failure rate: "
                \o ToFixed1(FMul(failureRateOrZero(test), FromInt(100)))
                \o "%"
          [] strategy = "smart" -> smartReason(test, now),
     filePath |-> test.filePath]

\* a sort of smartPrioritize that compares the priorities only
Comparator_PriorityOnly(strategy, a, b) == b.priority - a.priority

\* the comparator handed to sort: negative, zero or positive
Comparator(strategy, a, b) ==
    IF strategy = "smart" /\ b.priority = a.priority
    THEN riskOrder[a.riskLevel] - riskOrder[b.riskLevel]
    ELSE b.priority - a.priority

\* p put into the sorted s behind every element that does not compare
\* greater than p
RECURSIVE InsertPriority(_, _, _)
InsertPriority(strategy, s, p) ==
    IF s = <<>> THEN <<p>>
    ELSE IF Comparator(strategy, Head(s), p) > 0 THEN <<p>> \o s
    ELSE <<Head(s)>> \o InsertPriority(strategy, Tail(s), p)

\* Array.prototype.sort with the comparator: a stable sort
RECURSIVE SortPriorities(_, _)
SortPriorities(strategy, ps) ==
    IF ps = <<>> THEN <<>>
    ELSE InsertPriority(strategy,
                        SortPriorities(strategy, SubSeq(ps, 1, Len(ps) - 1)),
                        ps[Len(ps)])

\* .map((test, index) => ({ ...test, executionOrder: index + 1 }))
Renumber(ps) == [k \in 1..Len(ps) |-> [ps[k] EXCEPT !.executionOrder = k]]

\* prioritizeByRisk ("risk"), prioritizeByChanges ("changes"),
\* prioritizeByFailureRate ("failureRate") and smartPrioritize ("smart"):
\* map, sort, map
prioritize(strategy, tests, now) ==
    Renumber(SortPriorities(strategy,
        [k \in 1..Len(tests) |-> TestPriority(strategy, tests[k], k - 1, now)]))

\* tests.filter(t => levels.includes(t.riskClassification.riskLevel))
FilterByLevel(tests, levels) ==
    SelectSeq(tests, LAMBDA t : t.riskClassification.riskLevel \in levels)

\* a filter that runs the medium-risk tests on a pull request as well
filterForCI_MediumOnPR(tests, ciContext) ==
    CASE ciContext \in {"pr", "merge"} ->
            FilterByLevel(tests, {"critical", "high", "medium"})
      [] OTHER -> tests

\* filterForCI(tests, context)
filterForCI(tests, ciContext) ==
    CASE ciContext = "pr" -> FilterByLevel(tests, {"critical", "high"})
      [] ciContext = "merge" ->
            FilterByLevel(tests, {"critical", "high", "medium"})
      [] ciContext = "nightly" -> tests
      [] ciContext = "release" -> tests
      [] OTHER -> tests

Strategies == {"risk", "changes", "failureRate", "smart"}
CIContexts == {"pr", "merge", "nightly", "release"}

\* Date.now() when the prioritizer is called
DateNowSamples == {20 * MsPerDay}

\* tests of every risk level: never modified, modified just now, half a
\* day, ten days and twenty days before, with and without a failure rate
\* and an execution time
TestInfoSamples(now) ==
    {[name |-> "login", filePath |-> "cypress/e2e/login.cy.ts",
      riskClassification |-> [riskLevel |-> "critical"],
      lastModified |-> Absent, executionTime |-> Absent,
      failureRate |-> Absent],
     [name |-> "footer", filePath |-> "cypress/e2e/footer.cy.ts",
      riskClassification |-> [riskLevel |-> "low"],
      lastModified |-> DateOf(now), executionTime |-> Absent,
      failureRate |-> Absent],
     [name |-> "cart", filePath |-> "cypress/e2e/cart.cy.ts",
      riskClassification |-> [riskLevel |-> "high"],
      lastModified |-> DateOf(now - 240 * MsPerHour),
      executionTime |-> Num(12000), failureRate |-> Num(<<>>)],
     [name |-> "search", filePath |-> "cypress/e2e/search.cy.ts",
      riskClassification |-> [riskLevel |-> "medium"],
      lastModified |-> DateOf(now - 12 * MsPerHour),
      executionTime |-> Num(2000), failureRate |-> Num(FDivInt(15, 100))],
     [name |-> "profile", filePath |-> "cypress/e2e/profile.cy.ts",
      riskClassification |-> [riskLevel |-> "low"],
      lastModified |-> DateOf(now - 480 * MsPerHour),
      executionTime |-> Num(3333), failureRate |-> Num(FDivInt(5, 1000))]}

RECURSIVE TestInfoLists(_, _)
TestInfoLists(now, n) ==
    IF n = 0 THEN {<<>>}
    ELSE LET shorter == TestInfoLists(now, n - 1)
         IN  shorter \cup {Append(l, t) : l \in {s \in shorter : Len(s) = n - 1},
                                          t \in TestInfoSamples(now)}

InitPrioritizer ==
    /\ dateNow \in DateNowSamples
    /\ testInfos \in TestInfoLists(dateNow, MaxInfos)
    /\ prioritized = NoResult
    /\ filtered = NoResult
    /\ OnlyPrioritizer

\* prioritizer.prioritizeByRisk(tests), .prioritizeByChanges(tests),
\* .prioritizeByFailureRate(tests) or .smartPrioritize(tests)
Prioritize ==
    /\ prioritized = NoResult
    /\ \E strategy \in Strategies :
          prioritized' = [strategy |-> strategy,
                          list |-> prioritize(strategy, testInfos, dateNow)]
    /\ UNCHANGED <<testInfos, dateNow, filtered>>
    /\ UNCHANGED exceptPrioritizer

\* prioritizer.filterForCI(tests, context)
FilterForCI ==
    /\ filtered = NoResult
    /\ \E ciContext \in CIContexts :
          filtered' = [context |-> ciContext,
                       list |-> filterForCI(testInfos, ciContext)]
    /\ UNCHANGED <<testInfos, dateNow, prioritized>>
    /\ UNCHANGED exceptPrioritizer

NextPrioritizer == Prioritize \/ FilterForCI

SpecPrioritizer == InitPrioritizer /\ [][NextPrioritizer]_vars

(***************************************************************************)
(* C16, C17: the results of the prioritization strategies and of the CI    *)
(* filter                                                                  *)
(***************************************************************************)
\* how many elements of the sequence s satisfy Test
CountOf(s, Test(_)) == Cardinality({k \in 1..Len(s) : Test(s[k])})

\* C16: each prioritization strategy returns one entry per input test,
\* sorted by non-increasing priority; smartPrioritize orders entries of
\* equal priority critical, high, medium, low; the entry at position k has
\* executionOrder k, so the executionOrder values are exactly 1..N.
C16_SortedAndNumbered ==
    prioritized # NoResult =>
        LET l == prioritized.list
            N == Len(testInfos)
        IN  /\ Len(l) = N
            /\ \A t \in 1..N :
                  CountOf(l, LAMBDA p : p.testName = testInfos[t].name
                                        /\ p.filePath = testInfos[t].filePath)
                  = CountOf(testInfos, LAMBDA u : u = testInfos[t])
            /\ \A k \in 1..(N - 1) :
                  /\ l[k].priority >= l[k + 1].priority
                  /\ (prioritized.strategy = "smart"
                      /\ l[k].priority = l[k + 1].priority)
                     => riskOrder[l[k].riskLevel]
                        <= riskOrder[l[k + 1].riskLevel]
            /\ \A k \in 1..N : l[k].executionOrder = k
            /\ {l[k].executionOrder : k \in 1..N} = 1..N

\* smartPrioritize has moved a critical test from the last place of the
\* input to the first place of the result, before a high and a low test of
\* the same priority
C16_Witness ==
    /\ prioritized # NoResult
    /\ prioritized.strategy = "smart"
    /\ Len(testInfos) = 3
    /\ testInfos[1].riskClassification.riskLevel = "low"
    /\ testInfos[3].riskClassification.riskLevel = "critical"
    /\ prioritized.list[1].riskLevel = "critical"
    /\ prioritized.list[2].riskLevel = "high"
    /\ prioritized.list[3].riskLevel = "low"
    /\ prioritized.list[1].priority = prioritized.list[3].priority

\* the risk levels a CI context runs
LevelsOf(ciContext) ==
    CASE ciContext = "pr" -> {"critical", "high"}
      [] ciContext = "merge" -> {"critical", "high", "medium"}
      [] ciContext = "nightly" -> {"critical", "high", "medium", "low"}
      [] ciContext = "release" -> {"critical", "high", "medium", "low"}

Elements(s) == {s[k] : k \in 1..Len(s)}

\* the result of filterForCI holds, in input order, exactly the tests of
\* the levels of its context
C17_Filtered ==
    filtered # NoResult =>
        LET l == filtered.list
            kept == {k \in 1..Len(testInfos) :
                        testInfos[k].riskClassification.riskLevel
                        \in LevelsOf(filtered.context)}
        IN  /\ Len(l) = Cardinality(kept)
            /\ \A k \in kept :
                  l[Cardinality({i \in kept : i <= k})] = testInfos[k]

\* the results for the four contexts are nested
C17_Nested ==
    /\ Elements(filterForCI(testInfos, "pr"))
       \subseteq Elements(filterForCI(testInfos, "merge"))
    /\ Elements(filterForCI(testInfos, "merge"))
       \subseteq Elements(filterForCI(testInfos, "nightly"))
    /\ filterForCI(testInfos, "nightly") = filterForCI(testInfos, "release")

\* C17: filterForCI returns, in input order and without changing the input
\* list, exactly the tests whose riskLevel is critical or high for 'pr',
\* critical, high or medium for 'merge', and all tests for 'nightly' and
\* 'release'; so the 'pr' result is a subset of the 'merge' result, which
\* is a subset of the 'nightly' and 'release' results.
C17_FilterForCI ==
    /\ [](C17_Filtered /\ C17_Nested)
    /\ [][testInfos' = testInfos]_vars

\* filterForCI for 'pr' has dropped the second of three tests and kept the
\* first and the third in their order
C17_Witness ==
    /\ filtered # NoResult
    /\ filtered.context = "pr"
    /\ Len(testInfos) = 3
    /\ testInfos[1].riskClassification.riskLevel = "high"
    /\ testInfos[2].riskClassification.riskLevel = "medium"
    /\ testInfos[3].riskClassification.riskLevel = "critical"
    /\ filtered.list = <<testInfos[1], testInfos[3]>>

(***************************************************************************)
(* Two calls of calculateConfidence with the same input.  Time passes      *)
(* between the calls or does not: both calls can fall into one millisecond.*)
(***************************************************************************)
\* the inputs with at most one quality vector and at most one validation
RecalculateInputs ==
    {in \in ConfidenceInputs :
        /\ ValidConfidenceInput(in)
        /\ Len(in.qualityMetrics) <= 1
        /\ in.validationStats.totalValidations <= 1}

InitRecalculate ==
    /\ input \in RecalculateInputs
    /\ confidence = NoResult
    /\ prResult = NoResult
    /\ wallClock = 0
    /\ recalculated = NoResult
    /\ OnlyConfidence

\* a millisecond passes
Elapse ==
    /\ wallClock < MaxClock
    /\ wallClock' = wallClock + 1
    /\ UNCHANGED <<input, confidence, prResult, recalculated>>
    /\ UNCHANGED exceptConfidence

\* scorer.calculateConfidence(input) once more, with an equal input
Recalculate ==
    /\ confidence # NoResult
    /\ recalculated = NoResult
    /\ recalculated' = calculateConfidence(input, wallClock)
    /\ UNCHANGED <<input, confidence, prResult, wallClock>>
    /\ UNCHANGED exceptConfidence

NextRecalculate == CalculateConfidence \/ Elapse \/ Recalculate

SpecRecalculate == InitRecalculate /\ [][NextRecalculate]_vars

\* C18: calculateConfidence is a pure, deterministic function of its four
\* inputs: two calls with equal inputs, made at any two times, return
\* ReleaseConfidenceScore records that are equal in every field.
C18_EqualInEveryField ==
    recalculated # NoResult => recalculated = confidence

(***************************************************************************)
(* Several scoreTest calls on several TestQualityScorer instances.  The    *)
(* class has no fields and scoreTest does not await, so a call runs from   *)
(* entry to return without another call in between; what a call could      *)
(* share with another is the issues array it pushes to.                    *)
(***************************************************************************)
MaxScorings == 3       \* at most this many scoreTest calls are made

ScorerInstances == {"scorerA", "scorerB"}

RescoreCodes ==
    {"",
     "  it('fails', () => {",
     JoinLines(<<"describe('Login', () => {",
                 "    cy.get(\"#total\").should('equal', 1000);">>)}

\* an issues array kept in the scorer: a call pushes behind the issues of
\* the calls made before on the same instance
IssuesAtEntry_KeptInScorer(earlier, instance) ==
    LET own == SelectSeq(earlier, LAMBDA c : c.instance = instance)
    IN  IF own = <<>> THEN <<>> ELSE own[Len(own)].metrics.issues

\* const issues: QualityIssue[] = [] : the array of a call is new and
\* empty, whatever calls were made before on this scorer or another
IssuesAtEntry(earlier, instance) == <<>>

InitRescore ==
    /\ testCode = NoResult
    /\ quality = NoResult
    /\ scorings = <<>>
    /\ OnlyScorer

\* instance.scoreTest(code)
ScoreOn ==
    /\ Len(scorings) < MaxScorings
    /\ \E instance \in ScorerInstances, code \in RescoreCodes :
          LET scored == scoreTest(code)
              issues == IssuesAtEntry(scorings, instance) \o scored.issues
          IN  scorings' =
                  Append(scorings,
                         [instance |-> instance, testCode |-> code,
                          metrics |-> [scored EXCEPT !.issues = issues]])
    /\ UNCHANGED <<testCode, quality>>
    /\ UNCHANGED exceptScorer

NextRescore == ScoreOn

SpecRescore == InitRescore /\ [][NextRescore]_vars

Deciding(answer, written) ==
    /\ pc = "deciding"
    /\ inFlight.answer = answer
    /\ inFlight.written = written

\* the catch block of the approve branch: resolved = true and nothing else
CatchApprove ==
    /\ retries < MaxRetries
    /\ retries' = retries + 1
    /\ inFlight' = NoResult
    /\ LoopHead(pendingTests, cursor)

\* an approve branch that counts the approval as soon as the test file is
\* written, before approved-tests.json is updated
ApproveWriteFile_CountsEarly ==
    /\ pc = "prompt"
    /\ \E written \in BOOLEAN :
        IF written
        THEN /\ approvedDir' = approvedDir \cup {CurrentTest.fileName}
             /\ session' = Counted("approved")
             /\ inFlight' = [answer |-> "a", category |-> "",
                             written |-> "file"]
             /\ pc' = "deciding"
             /\ UNCHANGED <<retries, pendingFile, pendingTests, cursor,
                            globalNum>>
        ELSE /\ CatchApprove
             /\ UNCHANGED <<approvedDir, session>>
    /\ UNCHANGED <<variant, atStart, approvedTests, rejectedDir,
                   rejectionTracking>>
    /\ UNCHANGED exceptSession

\* answer 'a': mkdir and fs.promises.writeFile(outputPath, ...)
ApproveWriteFile ==
    /\ pc = "prompt"
    /\ \E written \in BOOLEAN :
        IF written
        THEN /\ approvedDir' = approvedDir \cup {CurrentTest.fileName}
             /\ inFlight' = [answer |-> "a", category |-> "",
                             written |-> "file"]
             /\ pc' = "deciding"
             /\ UNCHANGED <<retries, pendingFile, pendingTests, cursor,
                            globalNum>>
        ELSE /\ CatchApprove
             /\ UNCHANGED approvedDir
    /\ UNCHANGED <<variant, atStart, session, approvedTests, rejectedDir,
                   rejectionTracking>>
    /\ UNCHANGED exceptSession

\* updateApprovedTests(test)
ApproveUpdateLog ==
    /\ Deciding("a", "file")
    /\ \E written \in BOOLEAN :
        IF written
        THEN /\ approvedTests' = updateApprovedTests(CurrentTest)
             /\ inFlight' = [inFlight EXCEPT !.written = "log"]
             /\ UNCHANGED <<retries, pendingFile, pendingTests, cursor,
                            globalNum, pc>>
        ELSE /\ CatchApprove
             /\ UNCHANGED approvedTests
    /\ UNCHANGED <<variant, atStart, session, approvedDir, rejectedDir,
                   rejectionTracking>>
    /\ UNCHANGED exceptSession

\* session.approved++; pendingTests.splice(i, 1); resolved = true
ApproveCount ==
    /\ Deciding("a", "log")
    /\ session' = Counted("approved")
    /\ inFlight' = NoResult
    /\ LoopHead(Splice(pendingTests, cursor), cursor)
    /\ UNCHANGED <<variant, atStart, approvedDir, approvedTests, rejectedDir,
                   rejectionTracking, retries>>
    /\ UNCHANGED exceptSession

\* a write of the reject branch throws: nothing in main catches it
ThrowReject ==
    /\ pc' = "failed"
    /\ inFlight' = NoResult
    /\ UNCHANGED <<pendingFile, pendingTests, cursor, globalNum>>

\* answer 'r', category and reason: mkdirSync and
\* fs.writeFileSync(rejectionPath, ...)
RejectWriteFile ==
    /\ pc = "prompt"
    /\ \E category \in CategorySamples, written \in BOOLEAN :
        IF written
        THEN /\ rejectedDir' = rejectedDir \cup {CurrentTest.fileName \o ".json"}
             /\ inFlight' = [answer |-> "r", category |-> category,
                             written |-> "file"]
             /\ pc' = "deciding"
             /\ UNCHANGED <<pendingFile, pendingTests, cursor, globalNum>>
        ELSE /\ ThrowReject
             /\ UNCHANGED rejectedDir
    /\ UNCHANGED <<variant, atStart, session, approvedDir, approvedTests,
                   rejectionTracking, retries>>
    /\ UNCHANGED exceptSession

\* updateRejectionTracking(test, reason, category)
RejectUpdateLog ==
    /\ Deciding("r", "file")
    /\ \E written \in BOOLEAN :
        IF written
        THEN /\ rejectionTracking' =
                    updateRejectionTracking(CurrentTest, inFlight.category)
             /\ inFlight' = [inFlight EXCEPT !.written = "log"]
             /\ UNCHANGED <<pendingFile, pendingTests, cursor, globalNum, pc>>
        ELSE /\ ThrowReject
             /\ UNCHANGED rejectionTracking
    /\ UNCHANGED <<variant, atStart, session, approvedDir, approvedTests,
                   rejectedDir, retries>>
    /\ UNCHANGED exceptSession

\* session.rejected++; pendingTests.splice(i, 1); resolved = true
RejectCount ==
    /\ Deciding("r", "log")
    /\ session' = Counted("rejected")
    /\ inFlight' = NoResult
    /\ LoopHead(Splice(pendingTests, cursor), cursor)
    /\ UNCHANGED <<variant, atStart, approvedDir, approvedTests, rejectedDir,
                   rejectionTracking, retries>>
    /\ UNCHANGED exceptSession

NextDecisions ==
    \/ Load
    \/ ApproveWriteFile \/ ApproveUpdateLog \/ ApproveCount
    \/ RejectWriteFile \/ RejectUpdateLog \/ RejectCount
    \/ Skip

SpecDecisions == InitSession /\ [][NextDecisions]_vars

\* the log holds an entry for the file name
Logged(log, fileName) == \E k \in 1..Len(log) : log[k].fileName = fileName

\* a step in which a write of the decision fails: the catch block of the
\* approve branch runs, or the exception of the reject branch ends main
WriteFails == retries' = retries + 1 \/ (pc # "failed" /\ pc' = "failed")

\* C20: for every Approve or Reject decision the record is written to its
\* store (the approved test file and approved-tests.json, or the rejection
\* file and rejection-tracking.json) before the in-memory session counter
\* for that decision is incremented, and when the write fails the counter
\* is not incremented.
C20_WrittenBeforeCounted ==
    [][/\ session'.approved > session.approved
          => /\ CurrentTest.fileName \in approvedDir
             /\ Logged(approvedTests, CurrentTest.fileName)
       /\ session'.rejected > session.rejected
          => /\ (CurrentTest.fileName \o ".json") \in rejectedDir
             /\ Logged(rejectionTracking, CurrentTest.fileName)
       /\ WriteFails => session' = session]_vars

\* a session that counted one approval and one rejection, after an
\* approval whose log update failed and was not counted
C20_Witness ==
    /\ variant = "counters"
    /\ pc = "done"
    /\ session.approved = 1
    /\ session.rejected = 1
    /\ retries = 1
    /\ Len(approvedTests) = 1
    /\ Cardinality(approvedDir) = 2
    /\ Len(rejectionTracking) = 1

(***************************************************************************)
(* C21, C26: the recommendation of the scorer against the gates of the PR  *)
(* validation                                                              *)
(***************************************************************************)
\* C21: whenever calculateConfidence returns recommendation
\* 'ready-to-release', all four PR quality gates pass for that same score:
\* validate returns overallPassed = true with empty blockers and empty
\* warnings.
C21_ReadyPassesAllGates ==
    (prResult # NoResult /\ confidence.recommendation = "ready-to-release")
    => /\ prResult.overallPassed
       /\ prResult.blockers = <<>>
       /\ prResult.warnings = <<>>
       /\ \A k \in 1..Len(prResult.gates) : prResult.gates[k].passed

\* C26: whenever validate returns overallPassed = true for a score produced
\* by calculateConfidence, that score's recommendation is not 'blocked'.
C26_PassedIsNotBlocked ==
    (prResult # NoResult /\ prResult.overallPassed)
    => confidence.recommendation # "blocked"

\* the issue list holds an issue of the severity with the message
HasIssue(issues, severity, message) ==
    \E k \in 1..Len(issues) :
        issues[k].severity = severity /\ issues[k].message = message

\* C22: the assertion check deducts 50 points with an error-severity issue
\* when the text contains no assertion call, and deducts 20 points with a
\* warning issue whenever the number of assertion calls is smaller than
\* the number of it( test cases.
C22_AssertionDeductions ==
    quality # NoResult =>
        LET assertions == MatchCount(testCode, <<".should(", ".expect(">>)
            itBlocks == MatchCount(testCode, <<"it(">>)
            none == IF assertions = 0 THEN 50 ELSE 0
            fewer == IF assertions < itBlocks THEN 20 ELSE 0
        IN  /\ assertions = 0
               => HasIssue(quality.issues, "error",
                           "No assertions found in test")
            /\ assertions < itBlocks
               => HasIssue(quality.issues, "warning",
                           "Some test cases may be missing assertions")
            /\ quality.assertionScore <= 100 - none - fewer

(***************************************************************************)
(* Texts whose test descriptions have every length from 1 up               *)
(***************************************************************************)
MaxDescription == 22   \* a test description has at most this many characters

DescriptionText == "shows the cart total after a coupon"

\* a test case whose description has n characters
ItLine(n) == "  it('" \o SubSeq(DescriptionText, 1, n) \o "', () => {"

DescribedTests ==
    {ItLine(n) : n \in 1..MaxDescription}
        \cup {JoinLines(<<ItLine(n), ItLine(m)>>) : n, m \in 1..MaxDescription}

InitDescriptions ==
    /\ testCode \in DescribedTests
    /\ quality = NoResult
    /\ scorings = <<>>
    /\ OnlyScorer

NextDescriptions == ScoreTest

SpecDescriptions == InitDescriptions /\ [][NextDescriptions]_vars

\* the description inside a match it('...' of the description regex
DescriptionOf(match) == SubSeq(match, 5, Len(match) - 1)

\* C23: the maintainability check deducts 5 points, with the info issue
\* 'Some test descriptions are too short', exactly when at least one
\* it(...) test description in the text is shorter than 20 characters.
C23_ShortDescriptions ==
    quality # NoResult =>
        LET descriptions == Descriptions(testCode)
            short == \E k \in 1..Len(descriptions) :
                        Len(DescriptionOf(descriptions[k])) < 20
            others == SelectSeq(quality.issues,
                        LAMBDA i : i.message
                                   # "Some test descriptions are too short")
        IN  /\ short <=> HasIssue(quality.issues, "info",
                                  "Some test descriptions are too short")
            /\ quality.maintainabilityScore
                  = ExpectedScore(others, "maintainability")
                    - (IF short THEN 5 ELSE 0)

(***************************************************************************)
(* Tests that differ in their executionTime only                           *)
(***************************************************************************)
ExecutionTimeSamples == {0, 50, 1000, 2500, 5000, 7500, 10000, 12000}

TimedTest(executionTime) ==
    [name |-> "checkout", filePath |-> "cypress/e2e/checkout.cy.ts",
     riskClassification |-> [riskLevel |-> "low"],
     lastModified |-> Absent, executionTime |-> executionTime,
     failureRate |-> Absent]

TimedTests ==
    {TimedTest(Absent)} \cup {TimedTest(Num(t)) : t \in ExecutionTimeSamples}

InitExecutionTimes ==
    /\ dateNow \in DateNowSamples
    /\ testInfos \in {<<t>> : t \in TimedTests}
                        \cup {<<t, u>> : t, u \in TimedTests}
    /\ prioritized = NoResult
    /\ filtered = NoResult
    /\ OnlyPrioritizer

NextExecutionTimes == Prioritize

SpecExecutionTimes == InitExecutionTimes /\ [][NextExecutionTimes]_vars

\* the executionTime of the test is known
TimeKnown(test) == test.executionTime # Absent

\* C24: in smartPrioritize the execution-time score of a test whose
\* executionTime t >= 0 ms is known is max(0, 100 - (t/5000)*50), so a
\* faster test never gets a lower execution-time score than a slower one;
\* only a test whose executionTime is unknown gets the default 50.
C24_ExecutionScore ==
    (prioritized # NoResult /\ prioritized.strategy = "smart") =>
        /\ \A k \in 1..Len(testInfos) :
              TimeKnown(testInfos[k])
              => executionScore(testInfos[k])
                 = MaxZeroSub(FromInt(100),
                              FMul(FDivInt(testInfos[k].executionTime.value,
                                           5000),
                                   FromInt(50)))
        /\ \A j, k \in 1..Len(testInfos) :
              (/\ TimeKnown(testInfos[j]) /\ TimeKnown(testInfos[k])
               /\ testInfos[j].executionTime.value
                  <= testInfos[k].executionTime.value)
              => /\ ~FLess(executionScore(testInfos[j]),
                           executionScore(testInfos[k]))
                 /\ smartPriority(testInfos[j], dateNow)
                    >= smartPriority(testInfos[k], dateNow)

\* the sum of the percentages of the patterns, added in their order
RECURSIVE PercentageSum(_)
PercentageSum(patterns) ==
    IF patterns = <<>> THEN FromInt(0)
    ELSE FAdd(PercentageSum(SubSeq(patterns, 1, Len(patterns) - 1)),
              patterns[Len(patterns)].percentage)

\* C25: in the result of calculateStats, commonPatterns contains exactly
\* the reasons with count > 0, sorted by descending count, each with at
\* most 3 example comments, and each percentage is that reason's share of
\* the rejections: every percentage lies in 0..100 and the percentages sum
\* to 100 (to the nearest integer) whenever commonPatterns is non-empty.
C25_CommonPatterns ==
    (rejectionStats # NoResult /\ "commonPatterns" \in DOMAIN rejectionStats)
    => LET patterns == rejectionStats.commonPatterns
           byReason == rejectionStats.rejectionsByReason
       IN  /\ {patterns[k].reason : k \in 1..Len(patterns)}
                 = {r \in DOMAIN byReason : byReason[r] > 0}
           /\ \A k \in 1..Len(patterns) :
                 /\ patterns[k].count = byReason[patterns[k].reason]
                 /\ Len(patterns[k].examples) <= 3
                 /\ ~FLess(FromInt(100), patterns[k].percentage)
           /\ \A k \in 1..(Len(patterns) - 1) :
                 patterns[k].count >= patterns[k + 1].count
           /\ patterns # <<>> => MathRound(PercentageSum(patterns)) = 100

\* the test has been decided: approved and logged, or rejected and logged
IsDecided(test) ==
    \/ test.fileName \in approvedDir /\ Logged(approvedTests, test.fileName)
    \/ Logged(rejectionTracking, test.fileName)

\* C27: at every point between two decisions of a validation session, a
\* test that has already been approved or rejected is no longer in the
\* on-disk pending-tests.json, so a session that is interrupted before it
\* ends never has an already-decided test presented again in the next
\* session.
C27_DecidedLeavesPendingFile ==
    pc \in {"prompt", "failed"} =>
        \A k \in 1..Len(atStart) :
            IsDecided(atStart[k]) => ~IsStillPending(atStart[k])

\* C28: in every validation session, including one in which saving an
\* approved test fails, each pending test is presented for a decision
\* exactly once, so the running test number shown never exceeds the number
\* of tests found at session start and approved + rejected + skipped equals
\* the number of tests presented.
C28_PresentedOnce ==
    (variant = "counters" /\ pc \in {"prompt", "done"}) =>
        LET originalTotal == Len(SelectSeq(atStart, IsReviewable))
            decided == session.approved + session.rejected + session.skipped
        IN  /\ globalNum <= originalTotal
            /\ pc = "done" => decided = globalNum
            /\ pc = "prompt" => decided = globalNum - 1

(***************************************************************************)
(* From the feature mappings to the PR gates: analyzeCoverage makes the    *)
(* CoverageMetrics, which go into a ReleaseConfidenceInput next to test    *)
(* results, quality vectors and validation counts; calculateConfidence     *)
(* scores the input and validate checks the score.                         *)
(***************************************************************************)
\* the lists of at most two features, the larger suites, and one tested
\* feature of every level but critical
PipelineMappings ==
    {ms \in MappingLists : Len(ms) <= 2}
        \cup Suites
        \cup {Suite(<<0, 0>>, <<1, 1>>, <<1, 1>>, <<1, 1>>)}

\* what goes into the input next to the coverage metrics: nothing at all,
\* all tests passed with full quality and validation, and four of five
\* tests passed
PipelineInputs ==
    {[testResults |-> [totalTests |-> t[1], passedTests |-> t[2]],
      qualityMetrics |-> q,
      validationStats |-> [totalValidations |-> v, approvedTests |-> v]] :
        t \in {<<0, 0>>, <<1, 1>>, <<5, 4>>}, q \in {<<>>, <<100>>},
        v \in {0, 1}}

InitPipeline ==
    /\ mappings \in PipelineMappings
    /\ metrics = NoResult
    /\ heatmap = NoResult
    /\ input = NoResult
    /\ confidence = NoResult
    /\ prResult = NoResult
    /\ wallClock = 0
    /\ recalculated = NoResult
    /\ IdleClassifier /\ IdleScorer /\ IdlePrioritizer
    /\ IdleTracker /\ IdleSession

\* the ReleaseConfidenceInput is built around the coverage metrics
BuildInput ==
    /\ metrics # NoResult
    /\ input = NoResult
    /\ \E rest \in PipelineInputs :
          input' = [testResults |-> rest.testResults,
                    coverageMetrics |-> metrics,
                    qualityMetrics |-> rest.qualityMetrics,
                    validationStats |-> rest.validationStats]
    /\ UNCHANGED <<confidence, prResult, wallClock, recalculated>>
    /\ UNCHANGED exceptConfidence

CalculateFromInput == input # NoResult /\ CalculateConfidence

NextPipeline ==
    AnalyzeCoverage \/ BuildInput \/ CalculateFromInput \/ ValidatePR

SpecPipeline == InitPipeline /\ [][NextPipeline]_vars

\* the feature mappings hold no critical-risk feature
NoCriticalFeature ==
    \A k \in 1..Len(mappings) :
        mappings[k].riskClassification.riskLevel # "critical"

\* C29: if the feature mappings contain no critical-risk feature,
\* riskWeightedCoverage is at most 60, and therefore a release confidence
\* computed from those coverage metrics is always 'blocked' and the PR Risk
\* Coverage gate always fails, whatever the test results, quality vectors
\* and validation counts are.
C29_NoCriticalBlocks ==
    (NoCriticalFeature /\ metrics # NoResult) =>
        /\ metrics.riskWeightedCoverage <= 60
        /\ confidence # NoResult => confidence.recommendation = "blocked"
        /\ prResult # NoResult
           => /\ prResult.gates[2].gateName = "Risk Coverage"
              /\ ~prResult.gates[2].passed
              /\ ~prResult.overallPassed

\* every feature of every level but critical is tested and the other
\* inputs are perfect: the weighted score is 88, and the release is blocked
C29_Witness ==
    /\ NoCriticalFeature
    /\ prResult # NoResult
    /\ metrics.riskWeightedCoverage = 60
    /\ confidence.components.testPassRate.score = 100
    /\ confidence.components.testQuality.score = 100
    /\ confidence.components.humanValidationRate.score = 100
    /\ confidence.overallScore = 88
    /\ confidence.recommendation = "blocked"

\* C30: when a configuration entry matches the feature name and a context
\* override is also supplied to classifyFeature, the override takes
\* precedence over the matched entry for every field it sets: riskLevel as
\* well as businessImpact, technicalComplexity and changeFrequency.
C30_OverrideWins ==
    LET found == findMatchingConfig(config, classifyArgs.featureName)
        context == classifyArgs.context
    IN  (/\ classification # NoResult
         /\ ~found.threw
         /\ found.entry # NoEntry
         /\ context # NoEntry) =>
            /\ context.riskLevel # Undefined
               => classification.riskLevel = context.riskLevel
            /\ context.businessImpact # Undefined
               => classification.businessImpact = context.businessImpact
            /\ context.technicalComplexity # Undefined
               => classification.technicalComplexity
                      = context.technicalComplexity
            /\ context.changeFrequency # Undefined
               => classification.changeFrequency = context.changeFrequency

====
